---------------------------- MODULE Spec2Model ----------------------------
(***************************************************************************)
(* A model of gb (ntancardoso/gb): the retry/timeout command executor      *)
(* (internal/core/branch.go), the per-repository sync state machine        *)
(* processSingleReset and the syncBranch driver with its worker pool       *)
(* (reset.go, held in src/unnamed/part_014), the switch state machine      *)
(* processSingleRepo (internal/core/switch.go), the progress monitor       *)
(* ProgressState (progress.go, held in src/unnamed/part_010), the          *)
(* directory filter (Config, part_014) and the log manager                 *)
(* (internal/core/logmanager.go).                                          *)
(*                                                                         *)
(* The specifications share the module's variables:                        *)
(*   SpecRetry      one invocation of an executor: the two git executors   *)
(*                  with retry, the two shell executions                   *)
(*   SpecRetryPair  the in-memory git executor, then the log-file one      *)
(*   SpecReset      one call of processSingleReset on one repository       *)
(*   SpecSwitch     one call of processSingleRepo on one repository        *)
(*   Spec           one run of syncBranch: gate, prompt, pool, summary     *)
(*   SpecProgress   the workers, the spinner task and the input listener   *)
(*                  on one ProgressState                                   *)
(*   SpecPoolLive   the worker pool and the aggregation loop, fair         *)
(*   SpecSummary    the aggregation loop and the summary, from every       *)
(*                  order of arrival of the results                        *)
(*   SpecSwitchLive SpecSwitch, fair, with commands that may not return    *)
(*   SpecStart      StartInput beside the spinner it has started           *)
(*   SpecFilter     newConfig and shouldExecuteInRepo on one path          *)
(*   SpecLog        the log manager and the three locks of a run           *)
(*   SpecStop       the end of the four operations and the spinner, fair   *)
(*   SpecRender     the frames the display writes, for every page size     *)
(*   SpecRenderRun  SpecRender with the results sent and received          *)
(*   SpecScan       the preflight scan of the hard and rebase modes        *)
(* Each specification leaves the variables it does not use at rest.        *)
(***************************************************************************)
EXTENDS Integers, Sequences, FiniteSets, TLC

VARIABLES
    \* ---- retry executor (branch.go:36-120, 415-462)
    rOp,          \* "git": a git executor with retry, "shell": a shell execution
    rVariant,     \* "mem": output kept in memory, "file": output to the log file
    rpc,          \* position in the executor's loop
    attempt,      \* the loop variable `attempt`
    lastErr,      \* `lastErr`: "nil", "timeout" (killed at the deadline), "fail"
    ctxErr,       \* cmdCtx.Err() as it stands when line 52 / 83 reads it
    attempts,     \* history: the outcome of every attempt made so far
    sleptAfter,   \* history: the outcome that preceded each time.Sleep(retryDelay)
    logLines,     \* "file" variant: the marker lines written to the log file
    ret,          \* the returned (retries, err), or NoRet
    memRun,       \* SpecRetryPair: what the in-memory executor did, or NoRun
    \* ---- processSingleReset (part_014:545-852)
    mode,         \* "soft" | "hard" | "rebase"
    spc,          \* position in processSingleReset
    hasOrigin,    \* `git remote get-url origin` succeeds
    hasCommits,   \* `git rev-parse --verify HEAD` succeeds
    curBranch,    \* "target", "other" or "detached"
    localTip,     \* commit of refs/heads/<branch>, 0 when the branch is absent
    originRef,    \* commit of the local ref origin/<branch>, 0 when absent
    remoteTip,    \* commit of <branch> in the origin repository itself
    markers,      \* the marker files present under .git
    rebaseDir,    \* .git/rebase-merge or .git/rebase-apply exists
    staged,       \* the index differs from HEAD
    unstaged,     \* the working tree differs from the index
    lsRemote,     \* the answer of checkBranchOnOrigin, "none" until asked
    lsExit,       \* history: how `git ls-remote --exit-code` ended, "none" until run
    cmds,         \* history: the git commands issued so far
    warning,      \* the local `warning` of doSoftReset
    rebaseOut,    \* history: how `git rebase` ended: "none", "ok", "conflict", "error"
    abortOut,     \* history: how `git rebase --abort` ended: "none", "ok", "fail"
    result,       \* the ResetResult returned, or NoResult
    \* ---- syncBranch (part_014:313-456)
    nRepos,       \* len(repos)
    workers,      \* the `workers` argument
    mpc,          \* position of the main goroutine
    stdinTTY,     \* standard input is a character device (a terminal)
    answer,       \* the bytes on standard input at the prompt
    preflightRan, \* preflightScan has been called
    prompted,     \* PromptConfirmDestructive has been called
    logDir,       \* NewLogManager has created the temporary directory
    repoCh,       \* the buffered channel repoCh
    repoClosed,   \* close(repoCh) has happened
    feederPc,     \* the feeder goroutine: "idle", "send", "done"
    fed,          \* number of repositories the feeder has sent
    closerPc,     \* the closer goroutine: "idle", "wait", "done"
    resCh,        \* the buffered channel resCh
    resClosed,    \* close(resCh) has happened
    wpc,          \* each worker goroutine's position
    wrepo,        \* the repository each worker holds, 0 when none
    wres,         \* the result each worker holds
    wg,           \* the WaitGroup counter
    statuses,     \* ProgressState.statuses[i].state
    handled,      \* history: how many times each repository was received
    results,      \* the `results` slice of the aggregation loop
    succeeded, failed, skipped,   \* the aggregation loop's counters
    skipReasons,  \* the map skipReasons: reason -> count (0: no such key)
    summary,      \* the summary block printed after the run, or NoSummary
    exitCode,     \* the process exit code, -1 while running
    \* ---- processSingleRepo (switch.go:417-504)
    swpc,         \* position in processSingleRepo
    swResult,     \* the SwitchResult returned, or NoSwitchResult
    swOut,        \* history: what the local check found, how each command ended
    swLogFile,    \* the logFile argument is not nil
    swLog,        \* the output the git commands wrote to the log file
    \* ---- ProgressState (part_010:28-360)
    mu,           \* ps.mu: <<"free", 0>> or the task that holds it
    spinnerIndex, \* ps.spinnerIndex
    currentPage,  \* ps.currentPage
    maxDisplayedRepos,  \* ps.maxDisplayedRepos (the page size)
    supportsANSI, \* ps.supportsANSI
    paginationMode,     \* ps.paginationMode
    spinnerPc,    \* the spinner goroutine: "off", "tick", "locked", "writing",
                  \* "stopped" (returned), "gone" (ended with the process)
    inputPc,      \* the input listener goroutine: "off", "key", "locked"
    trail,        \* history: the states UpdateStatus has written, per repository
    \* ---- Config (part_014:26-106)
    cfgPc,        \* "idle", "new" (before newConfig), "ready"
    skipDirs,     \* the skipDirs argument of newConfig
    includeDirs,  \* the includeDirs argument of newConfig
    skipSet,      \* cfg.skipSet
    includeSet,   \* cfg.includeSet
    relPath,      \* the RelPath last given to shouldExecuteInRepo
    selected,     \* what shouldExecuteInRepo answered for it
    \* ---- LogManager (logmanager.go) and the locks of a run
    lpc,          \* each worker's position between the two UpdateStatus calls
    lrel,         \* the RelPath of the repository each worker holds
    lfile,        \* the path of the log file each worker has open, <<>> if none
    lmMu,         \* lm.mu: Free or the task that holds it
    writeMu,      \* ps.writeMu: Free or the task that holds it
    logFiles,     \* lm.logFiles, as the set of its <<relPath, logPath>> entries
    created,      \* history: the paths given to os.Create, in order
    \* ---- the end of an operation (StopInput and the exits)
    opType,       \* the operation: "sync", "switch", "git" or "shell"
    stopSpinner,  \* ps.stopSpinner has been closed
    \* ---- the frames of the progress display (part_010:114-192)
    linesDrawn,   \* ps.linesDrawn
    frame,        \* the last frame written to ps.writer, or NoFrame
    prevLines,    \* history: the lines the frame before the last one wrote
    wrote,        \* history: the task whose step wrote a frame, "none" if the
                  \* last step wrote none
    rpanic,       \* a runtime error has ended the process
    \* ---- preflightScan (part_014:471-543)
    porcelain,    \* what `git status --porcelain` answers in each repository
    relRank,      \* the place of each repository's RelPath in byte order
    scanCh,       \* preflightScan's repoCh
    scanClosed,   \* close(repoCh) has been executed
    scanFed,      \* repositories the feeder has sent
    scanPc,       \* each scan worker's position
    scanRepo,     \* the repository each scan worker holds, 0 if none
    scanWg,       \* preflightScan's wg counter
    scanRes,      \* preflightScan's resCh
    scanResClosed,\* close(resCh) has been executed
    dirty,        \* the slice `dirty`, then the value returned
    scanArrived,  \* history: the order in which the infos were received
    scanCmds      \* history: the git commands the scan has run

retryVars == <<rOp, rVariant, rpc, attempt, lastErr, ctxErr, attempts,
               sleptAfter, logLines, ret, memRun>>
resetVars == <<mode, spc, hasOrigin, hasCommits, curBranch, localTip, originRef,
               remoteTip, markers, rebaseDir, staged, unstaged, lsRemote, lsExit,
               cmds, warning, rebaseOut, abortOut, result>>
dispVars  == <<nRepos, workers, mpc, stdinTTY, answer, preflightRan, prompted,
               logDir, repoCh, repoClosed, feederPc, fed, closerPc, resCh,
               resClosed, wpc, wrepo,
               wres, wg, statuses, handled, results, succeeded, failed, skipped,
               skipReasons, summary, exitCode>>
switchVars == <<swpc, swResult, swOut, swLogFile, swLog>>
progVars  == <<mu, spinnerIndex, currentPage, maxDisplayedRepos, supportsANSI,
               paginationMode, spinnerPc, inputPc, trail>>
filterVars == <<cfgPc, skipDirs, includeDirs, skipSet, includeSet, relPath,
                selected>>
logVars   == <<lpc, lrel, lfile, lmMu, writeMu, logFiles, created>>
stopVars  == <<opType, stopSpinner>>
renderVars == <<linesDrawn, frame, prevLines, wrote, rpanic>>
scanVars  == <<porcelain, relRank, scanCh, scanClosed, scanFed, scanPc,
               scanRepo, scanWg, scanRes, scanResClosed, dirty, scanArrived,
               scanCmds>>
sideVars  == <<filterVars, logVars, stopVars, renderVars, scanVars>>
vars == <<retryVars, resetVars, dispVars, switchVars, progVars, sideVars>>

(***************************************************************************)
(* Bounds of the model.                                                    *)
(***************************************************************************)
MaxRepos   == 2
MaxWorkers == 2
MaxCommit  == 2
MaxPageSize == 2
MaxTicks   == 1

(***************************************************************************)
(* Program constants.                                                      *)
(***************************************************************************)
maxRetries == 3
NumSpinnerFrames == 10

NoRet    == [retries |-> -1, err |-> "none"]
NoRun    == [attempts |-> <<>>, sleptAfter |-> <<>>, ret |-> NoRet]
NoSwitchResult == [Success |-> FALSE, Error |-> "pending"]
NoResult == [Success |-> FALSE, Skipped |-> FALSE, SkipReason |-> "",
             Error |-> "pending", Warning |-> ""]

\* The skip reasons processSingleReset returns (part_014:557-665), listed in
\* the byte order in which sort.Strings arranges them.
SkipReasonOrder ==
    <<"already up to date", "branch not on origin", "detached HEAD",
      "mid-cherry-pick in progress", "mid-merge in progress",
      "mid-revert in progress", "no commits", "no origin remote",
      "rebase already in progress">>
SkipReasonTexts == {SkipReasonOrder[i] : i \in DOMAIN SkipReasonOrder}
NoSkipReasons == [r \in SkipReasonTexts |-> 0]
NoSummary == [repos |-> -1, succeeded |-> 0, failed |-> 0, skipped |-> 0,
              reasons |-> <<>>]

(***************************************************************************)
(* The variables of each part at rest.                                     *)
(***************************************************************************)
RetryAtRest ==
    /\ rOp = "git" /\ rVariant = "mem" /\ rpc = "idle" /\ attempt = 0
    /\ lastErr = "nil" /\ ctxErr = "nil" /\ attempts = <<>> /\ sleptAfter = <<>>
    /\ logLines = <<>> /\ ret = NoRet /\ memRun = NoRun

ResetAtRest ==
    /\ spc = "idle" /\ hasOrigin = TRUE /\ hasCommits = TRUE
    /\ curBranch = "target" /\ localTip = 1 /\ originRef = 1 /\ remoteTip = 1
    /\ markers = {} /\ rebaseDir = FALSE /\ staged = FALSE /\ unstaged = FALSE
    /\ lsRemote = "none" /\ lsExit = "none" /\ cmds = <<>> /\ warning = ""
    /\ rebaseOut = "none" /\ abortOut = "none" /\ result = NoResult

DispAtRest ==
    /\ nRepos = 0 /\ workers = 0 /\ mpc = "idle" /\ stdinTTY = FALSE
    /\ answer = <<>> /\ preflightRan = FALSE /\ prompted = FALSE
    /\ logDir = FALSE /\ repoCh = <<>> /\ repoClosed = FALSE /\ fed = 0
    /\ feederPc = "idle" /\ closerPc = "idle"
    /\ resCh = <<>> /\ resClosed = FALSE /\ wpc = <<>> /\ wrepo = <<>>
    /\ wres = <<>> /\ wg = 0 /\ statuses = <<>> /\ handled = <<>>
    /\ results = <<>> /\ succeeded = 0 /\ failed = 0 /\ skipped = 0
    /\ skipReasons = NoSkipReasons /\ summary = NoSummary
    /\ exitCode = -1

SwitchAtRest ==
    /\ swpc = "idle" /\ swResult = NoSwitchResult
    /\ swOut = [local |-> "none", fetch |-> "none", switch |-> "none",
                track |-> "none"]
    /\ swLogFile = FALSE /\ swLog = <<>>

ProgAtRest ==
    /\ mu = <<"free", 0>> /\ spinnerIndex = 0 /\ currentPage = 0
    /\ maxDisplayedRepos = 1 /\ supportsANSI = FALSE
    /\ paginationMode = FALSE /\ spinnerPc = "off"
    /\ inputPc = "off" /\ trail = <<>>

FilterAtRest ==
    /\ cfgPc = "idle" /\ skipDirs = {} /\ includeDirs = {} /\ skipSet = {}
    /\ includeSet = {} /\ relPath = <<>> /\ selected = FALSE

LogAtRest ==
    /\ lpc = <<>> /\ lrel = <<>> /\ lfile = <<>> /\ lmMu = <<"free", 0>>
    /\ writeMu = <<"free", 0>> /\ logFiles = {} /\ created = <<>>

StopAtRest == opType = "" /\ stopSpinner = FALSE

NoFrame == [kind |-> "none"]

RenderAtRest ==
    /\ linesDrawn = 0 /\ frame = NoFrame /\ prevLines = 0 /\ wrote = "none"
    /\ rpanic = FALSE

ScanAtRest ==
    /\ porcelain = <<>> /\ relRank = <<>> /\ scanCh = <<>>
    /\ scanClosed = FALSE /\ scanFed = 0 /\ scanPc = <<>> /\ scanRepo = <<>>
    /\ scanWg = 0 /\ scanRes = <<>> /\ scanResClosed = FALSE /\ dirty = <<>>
    /\ scanArrived = <<>> /\ scanCmds = <<>>

SideAtRest ==
    FilterAtRest /\ LogAtRest /\ StopAtRest /\ RenderAtRest /\ ScanAtRest

(***************************************************************************)
(* RETRY / TIMEOUT EXECUTOR  (internal/core/branch.go:36-96)               *)
(***************************************************************************)
AttemptOutcomes == {"ok", "timeout", "fail"}

\* cmd.CombinedOutput() / cmd.Run() under exec.CommandContext: the error value.
RunErr(outcome) == IF outcome = "ok" THEN "nil" ELSE outcome

\* The context when the command returns: its deadline has passed only if the
\* command was killed by the timeout.
CtxAfterRun(outcome) == IF outcome = "timeout" THEN "DeadlineExceeded" ELSE "nil"

\* cancel(): a context not yet done becomes Canceled; one already done keeps
\* its error.  The executor calls cancel() (line 46 / 77) before it reads
\* cmdCtx.Err() (line 52 / 83).
Cancel(err) == IF err = "nil" THEN "Canceled" ELSE err

RetryOnly == UNCHANGED <<resetVars, dispVars, switchVars, progVars, sideVars>>

\* One invocation: executeCommandInRepos (275-310) and executeShellInRepos
\* (415-462) take the in-memory path when CreateLogFile failed and the
\* log-file path otherwise.
RetryInit ==
    /\ rOp \in {"git", "shell"}
    /\ rVariant \in {"mem", "file"}
    /\ rpc = (IF rOp = "git" THEN "loop" ELSE "shell")
    /\ attempt = 0 /\ lastErr = "nil" /\ ctxErr = "nil"
    /\ attempts = <<>> /\ sleptAfter = <<>> /\ logLines = <<>> /\ ret = NoRet
    /\ memRun = NoRun
    /\ mode = "soft" /\ ResetAtRest /\ DispAtRest /\ SwitchAtRest /\ ProgAtRest
    /\ SideAtRest

\* Lines 40-46 / 68-77: the loop test, one run of the command, cancel().
RunAttempt ==
    /\ rpc = "loop" /\ attempt < maxRetries
    /\ \E outcome \in AttemptOutcomes :
         /\ lastErr' = RunErr(outcome)
         /\ ctxErr' = Cancel(CtxAfterRun(outcome))
         /\ attempts' = Append(attempts, outcome)
    /\ rpc' = "ran"
    /\ UNCHANGED <<rOp, rVariant, attempt, sleptAfter, logLines, ret, memRun>>
    /\ RetryOnly

\* Mutant of CheckAttempt: the log-file executor alone tells a timeout from
\* another failure, and returns the latter at once.
CheckAttemptFileReturnsFailure ==
    /\ rpc = "ran"
    /\ IF lastErr = "nil"
       THEN /\ ret' = [retries |-> attempt, err |-> "nil"]
            /\ rpc' = "returned"
            /\ UNCHANGED <<attempt, logLines>>
       ELSE IF rVariant = "mem" \/ lastErr = "timeout"
       THEN IF attempt < maxRetries - 1
            THEN /\ rpc' = "sleep"
                 /\ logLines' = IF rVariant = "file"
                                THEN Append(logLines, "retry after timeout")
                                ELSE logLines
                 /\ UNCHANGED <<attempt, ret>>
            ELSE /\ attempt' = attempt + 1
                 /\ rpc' = "loop"
                 /\ UNCHANGED <<logLines, ret>>
       ELSE /\ ret' = [retries |-> attempt, err |-> lastErr]
            /\ rpc' = "returned"
            /\ logLines' = Append(logLines, "command failed")
            /\ UNCHANGED attempt
    /\ UNCHANGED <<rOp, rVariant, lastErr, ctxErr, attempts, sleptAfter, memRun>>
    /\ RetryOnly

\* Lines 48-59 / 79-92: the three-way test on the attempt's result.
CheckAttempt ==
    /\ rpc = "ran"
    /\ IF lastErr = "nil"
       THEN /\ ret' = [retries |-> attempt, err |-> "nil"]
            /\ rpc' = "returned"
            /\ UNCHANGED <<attempt, logLines>>
       ELSE IF ctxErr # "nil"
       THEN IF attempt < maxRetries - 1
            THEN /\ rpc' = "sleep"
                 /\ logLines' = IF rVariant = "file"
                                THEN Append(logLines, "retry after timeout")
                                ELSE logLines
                 /\ UNCHANGED <<attempt, ret>>
            ELSE \* falls out of the if: the loop's attempt++ runs
                 /\ attempt' = attempt + 1
                 /\ rpc' = "loop"
                 /\ UNCHANGED <<logLines, ret>>
       ELSE /\ ret' = [retries |-> attempt, err |-> lastErr]
            /\ rpc' = "returned"
            /\ logLines' = IF rVariant = "file"
                           THEN Append(logLines, "command failed")
                           ELSE logLines
            /\ UNCHANGED attempt
    /\ UNCHANGED <<rOp, rVariant, lastErr, ctxErr, attempts, sleptAfter, memRun>>
    /\ RetryOnly

\* Lines 54-55 / 86-87: time.Sleep(retryDelay); continue.
RetrySleep ==
    /\ rpc = "sleep"
    /\ sleptAfter' = Append(sleptAfter, attempts[Len(attempts)])
    /\ attempt' = attempt + 1
    /\ rpc' = "loop"
    /\ UNCHANGED <<rOp, rVariant, lastErr, ctxErr, attempts, logLines, ret,
                   memRun>>
    /\ RetryOnly

\* Line 62 / 95: the return after the loop.
LoopExit ==
    /\ rpc = "loop" /\ attempt >= maxRetries
    /\ ret' = [retries |-> maxRetries - 1, err |-> lastErr]
    /\ rpc' = "returned"
    /\ UNCHANGED <<rOp, rVariant, attempt, lastErr, ctxErr, attempts,
                   sleptAfter, logLines, memRun>>
    /\ RetryOnly

\* A shell execution: executeShellCommandToFile (98-120) on the log-file
\* path, the inline code of executeShellInRepos (415-431) on the in-memory
\* path.  The command runs once under the timeout; its error is the result,
\* and CommandResult.Retries keeps its zero value.
ShellRun ==
    /\ rpc = "shell"
    /\ \E outcome \in AttemptOutcomes :
         /\ lastErr' = RunErr(outcome)
         /\ ctxErr' = Cancel(CtxAfterRun(outcome))
         /\ attempts' = Append(attempts, outcome)
         /\ logLines' = IF rVariant = "file" /\ outcome # "ok"
                        THEN Append(logLines, "command failed")
                        ELSE logLines
         /\ ret' = [retries |-> 0, err |-> RunErr(outcome)]
    /\ rpc' = "returned"
    /\ UNCHANGED <<rOp, rVariant, attempt, sleptAfter, memRun>>
    /\ RetryOnly

RetryNext == RunAttempt \/ CheckAttempt \/ RetrySleep \/ LoopExit \/ ShellRun

SpecRetry == RetryInit /\ [][RetryNext]_vars

\* The same invocation given to the other executor: when the in-memory git
\* executor has returned, what it did is kept and the log-file executor
\* (65-96) starts on the same command.
StartFileRun ==
    /\ rOp = "git" /\ rVariant = "mem" /\ rpc = "returned"
    /\ memRun' = [attempts |-> attempts, sleptAfter |-> sleptAfter, ret |-> ret]
    /\ rVariant' = "file"
    /\ rpc' = "loop" /\ attempt' = 0 /\ lastErr' = "nil" /\ ctxErr' = "nil"
    /\ attempts' = <<>> /\ sleptAfter' = <<>> /\ logLines' = <<>>
    /\ ret' = NoRet
    /\ UNCHANGED rOp
    /\ RetryOnly

RetryPairInit == RetryInit /\ rOp = "git" /\ rVariant = "mem"

RetryPairNext ==
    RunAttempt \/ CheckAttempt \/ RetrySleep \/ LoopExit \/ StartFileRun

SpecRetryPair == RetryPairInit /\ [][RetryPairNext]_vars

(***************************************************************************)
(* SYNC STATE MACHINE  processSingleReset  (src/unnamed/part_014:545-852)  *)
(*                                                                         *)
(* One action per external command the function issues.  What git answers  *)
(* is read from the repository's state (hasOrigin, localTip, ...) where    *)
(* the state decides it, and is drawn with \E where the outside world      *)
(* decides it (the network, a failing command).  Commits are numbers       *)
(* 1..MaxCommit; 0 stands for a ref that does not exist.                   *)
(***************************************************************************)
Modes       == {"soft", "hard", "rebase"}
MarkerFiles == {"MERGE_HEAD", "CHERRY_PICK_HEAD", "REVERT_HEAD"}

SkipResult(reason) == [Success |-> FALSE, Skipped |-> TRUE, SkipReason |-> reason,
                       Error |-> "", Warning |-> ""]
\* Mutant of FailResult: the Error text is left empty.
FailResultNoError(err) == [Success |-> FALSE, Skipped |-> FALSE, SkipReason |-> "",
                           Error |-> "", Warning |-> ""]

FailResult(err)    == [Success |-> FALSE, Skipped |-> FALSE, SkipReason |-> "",
                       Error |-> err, Warning |-> ""]
OkResult(warn)     == [Success |-> TRUE, Skipped |-> FALSE, SkipReason |-> "",
                       Error |-> "", Warning |-> warn]

\* Mutant of MidOpName: only MERGE_HEAD is looked for.
MidOpNameMergeOnly(ms) == IF "MERGE_HEAD" \in ms THEN "merge" ELSE ""

\* checkMidOperation (749-764): the first marker found, in the table's order.
MidOpName(ms) ==
    IF "MERGE_HEAD" \in ms THEN "merge"
    ELSE IF "CHERRY_PICK_HEAD" \in ms THEN "cherry-pick"
    ELSE IF "REVERT_HEAD" \in ms THEN "revert"
    ELSE ""

\* checkAlreadyAtTarget (775-791): rev-parse HEAD equals rev-parse origin/<branch>;
\* false when either rev-parse fails.  It runs only once HEAD is on <branch>.
AlreadyAtTarget == localTip # 0 /\ originRef # 0 /\ localTip = originRef

\* getDirtyStatus (509-543) on the porcelain lines of this repository.
DirtyStatus(st, unst) ==
    IF st /\ unst THEN "staged + unstaged changes"
    ELSE IF st THEN "staged changes"
    ELSE IF unst THEN "unstaged changes"
    ELSE ""

repoFacts == <<hasOrigin, hasCommits, curBranch, localTip, originRef, remoteTip,
               markers, rebaseDir, staged, unstaged>>

Issue(c) == cmds' = Append(cmds, c)
Return(res) == spc' = "done" /\ result' = res
Goto(l) == spc' = l /\ UNCHANGED result
OtherParts == UNCHANGED <<retryVars, dispVars, switchVars, progVars, sideVars>>

\* A repository as processSingleReset may find it.  The facts a mode never
\* reads (markers outside hard, the rebase directory outside rebase, the
\* index and work tree in hard) are held at one value.
ResetInit ==
    /\ mode \in Modes
    /\ hasOrigin \in BOOLEAN /\ hasCommits \in BOOLEAN
    /\ curBranch \in {"target", "other", "detached"}
    /\ localTip \in 0..MaxCommit /\ originRef \in 0..MaxCommit
    /\ remoteTip \in 0..MaxCommit
    /\ hasCommits => (curBranch = "target" => localTip # 0)
    /\ ~hasCommits => (localTip = 0 /\ curBranch # "detached")
    /\ markers \in (IF mode = "hard" THEN SUBSET MarkerFiles ELSE {{}})
    /\ rebaseDir \in (IF mode = "rebase" THEN BOOLEAN ELSE {FALSE})
    /\ staged \in (IF mode = "hard" THEN {FALSE} ELSE BOOLEAN)
    /\ unstaged \in (IF mode = "rebase" THEN BOOLEAN ELSE {FALSE})
    /\ spc = "checkOrigin" /\ lsRemote = "none" /\ lsExit = "none"
    /\ cmds = <<>> /\ warning = ""
    /\ rebaseOut = "none" /\ abortOut = "none" /\ result = NoResult
    /\ RetryAtRest /\ DispAtRest /\ SwitchAtRest /\ ProgAtRest
    /\ SideAtRest

\* Mutant of CheckOriginExists: the skip is logged but the return is missing.
CheckOriginExistsNoReturn ==
    /\ spc = "checkOrigin"
    /\ Issue("remote get-url origin")
    /\ Goto("checkCommits")
    /\ UNCHANGED <<mode, repoFacts, lsRemote, lsExit, warning, rebaseOut, abortOut>>
    /\ OtherParts

\* 555-558
CheckOriginExists ==
    /\ spc = "checkOrigin"
    /\ Issue("remote get-url origin")
    /\ IF ~hasOrigin THEN Return(SkipResult("no origin remote"))
                     ELSE Goto("checkCommits")
    /\ UNCHANGED <<mode, repoFacts, lsRemote, lsExit, warning, rebaseOut, abortOut>>
    /\ OtherParts

\* 560-563
CheckHasCommits ==
    /\ spc = "checkCommits"
    /\ Issue("rev-parse --verify HEAD")
    /\ IF ~hasCommits THEN Return(SkipResult("no commits"))
                      ELSE Goto("checkDetached")
    /\ UNCHANGED <<mode, repoFacts, lsRemote, lsExit, warning, rebaseOut, abortOut>>
    /\ OtherParts

\* 565-568
CheckDetachedHEAD ==
    /\ spc = "checkDetached"
    /\ Issue("branch --show-current")
    /\ IF curBranch = "detached" THEN Return(SkipResult("detached HEAD"))
                                 ELSE Goto("checkRemote")
    /\ UNCHANGED <<mode, repoFacts, lsRemote, lsExit, warning, rebaseOut, abortOut>>
    /\ OtherParts

\* How `git ls-remote --exit-code --heads origin <branch>` can end: exit 0
\* with a matching head, exit 2 with none, exit 128 when the remote cannot
\* be read, killed by a signal (ExitCode() is -1), or not started at all
\* (an error that is no *exec.ExitError).
LsRemoteEnds == {"exit 0", "exit 2", "exit 128", "exit -1", "not started"}

\* The ends the repository and its remote allow: an answer needs the remote
\* to be read, and then tells whether <branch> is there.
LsRemoteEndsOf(tip) ==
    {e \in LsRemoteEnds : (e = "exit 0" => tip # 0) /\ (e = "exit 2" => tip = 0)}

\* exitErr.ExitCode() as %d prints it.
ExitCodeText(e) ==
    CASE e = "exit 0" -> "0" [] e = "exit 2" -> "2" [] e = "exit 128" -> "128"
      [] e = "exit -1" -> "-1"

\* Mutant of checkBranchOnOrigin: every non-zero exit means "absent".
checkBranchOnOriginAnyExit(e) ==
    IF e = "exit 0" THEN [found |-> TRUE, err |-> "nil"]
    ELSE IF e = "not started" THEN [found |-> FALSE, err |-> "exec: not started"]
    ELSE [found |-> FALSE, err |-> "nil"]

\* checkBranchOnOrigin (723-737): (found, err) from the command's end.
checkBranchOnOrigin(e) ==
    IF e = "exit 0" THEN [found |-> TRUE, err |-> "nil"]
    ELSE IF e = "exit 2" THEN [found |-> FALSE, err |-> "nil"]
    ELSE IF e = "not started" THEN [found |-> FALSE, err |-> "exec: not started"]
    ELSE [found |-> FALSE,
          err |-> "ls-remote failed with exit code " \o ExitCodeText(e)]

\* Mutant of CheckBranchOnOrigin: the branch is fetched before the remote
\* is asked for it.
CheckBranchOnOriginAfterFetch ==
    /\ spc = "checkRemote"
    /\ cmds' = cmds \o <<"fetch", "ls-remote">>
    /\ \E e \in LsRemoteEndsOf(remoteTip) :
         LET ans == checkBranchOnOrigin(e) IN
         /\ lsExit' = e
         /\ lsRemote' = IF ans.err # "nil" THEN "error"
                         ELSE IF ans.found THEN "found" ELSE "absent"
         /\ IF ans.err # "nil"
            THEN Return(FailResult("network error: " \o ans.err))
            ELSE IF ~ans.found
            THEN Return(SkipResult("branch not on origin"))
            ELSE Goto("getBranch")
    /\ UNCHANGED <<mode, repoFacts, warning, rebaseOut, abortOut>>
    /\ OtherParts

\* 570-578: precondition 4.
CheckBranchOnOrigin ==
    /\ spc = "checkRemote"
    /\ Issue("ls-remote")
    /\ \E e \in LsRemoteEndsOf(remoteTip) :
         LET ans == checkBranchOnOrigin(e) IN
         /\ lsExit' = e
         /\ lsRemote' = IF ans.err # "nil" THEN "error"
                         ELSE IF ans.found THEN "found" ELSE "absent"
         /\ IF ans.err # "nil"
            THEN Return(FailResult("network error: " \o ans.err))
            ELSE IF ~ans.found
            THEN Return(SkipResult("branch not on origin"))
            ELSE Goto("getBranch")
    /\ UNCHANGED <<mode, repoFacts, warning, rebaseOut, abortOut>>
    /\ OtherParts

\* 580-592: getCurrentBranch, then the choice of the alignment path.
GetCurrentBranch ==
    /\ spc = "getBranch"
    /\ Issue("branch --show-current")
    /\ \E ok \in BOOLEAN :
         IF ~ok THEN Return(FailResult("failed to get current branch"))
         ELSE IF curBranch # "target" THEN Goto("swLocal")
         ELSE Goto("fetch")
    /\ UNCHANGED <<mode, repoFacts, lsRemote, lsExit, warning, rebaseOut, abortOut>>
    /\ OtherParts

\* fetchBranchFromOrigin (794-816): a successful fetch of <branch> moves the
\* local ref origin/<branch> to the remote's commit.
FetchEffect(ok) ==
    /\ originRef' = IF ok THEN remoteTip ELSE originRef
    /\ UNCHANGED <<hasOrigin, hasCommits, curBranch, localTip, remoteTip,
                   markers, rebaseDir, staged, unstaged>>

\* 593-598: already on the target branch.
FetchOnBranch ==
    /\ spc = "fetch"
    /\ cmds' = cmds \o <<"rev-parse --is-shallow-repository", "fetch">>
    /\ \E ok \in {b \in BOOLEAN : b => remoteTip # 0} :
         /\ FetchEffect(ok)
         /\ IF ok THEN Goto("atTarget") ELSE Return(FailResult("fetch failed"))
    /\ UNCHANGED <<mode, lsRemote, lsExit, warning, rebaseOut, abortOut>>
    /\ OtherParts

\* switchToTargetBranch 821-823: does refs/heads/<branch> exist?
SwitchLocalCheck ==
    /\ spc = "swLocal"
    /\ Issue("show-ref")
    /\ IF localTip # 0 THEN Goto("swSwitch") ELSE Goto("swFetch")
    /\ UNCHANGED <<mode, repoFacts, lsRemote, lsExit, warning, rebaseOut, abortOut>>
    /\ OtherParts

\* 825-829 (and 586-591 on its error)
SwitchFetch ==
    /\ spc = "swFetch"
    /\ cmds' = cmds \o <<"rev-parse --is-shallow-repository", "fetch">>
    /\ \E ok \in {b \in BOOLEAN : b => remoteTip # 0} :
         /\ FetchEffect(ok)
         /\ IF ok THEN Goto("swSwitch")
                  ELSE Return(FailResult("switch to <branch> failed"))
    /\ UNCHANGED <<mode, lsRemote, lsExit, warning, rebaseOut, abortOut>>
    /\ OtherParts

\* 831-839: git switch <branch>.  Without a local branch it can only succeed
\* by creating one from origin/<branch>.
SwitchPlain ==
    /\ spc = "swSwitch"
    /\ Issue("switch")
    /\ \E ok \in {b \in BOOLEAN : b => (localTip # 0 \/ originRef # 0)} :
         IF ok
         THEN /\ curBranch' = "target"
              /\ localTip' = IF localTip # 0 THEN localTip ELSE originRef
              /\ Goto("atTarget")
         ELSE /\ UNCHANGED <<curBranch, localTip>>
              /\ Goto("swTrack")
    /\ UNCHANGED <<mode, hasOrigin, hasCommits, originRef, remoteTip, markers,
                   rebaseDir, staged, unstaged, lsRemote, lsExit, warning, rebaseOut,
                   abortOut>>
    /\ OtherParts

\* 841-851: git switch -c <branch> --track origin/<branch>.
SwitchTrack ==
    /\ spc = "swTrack"
    /\ Issue("switch -c --track")
    /\ \E ok \in {b \in BOOLEAN : b => (localTip = 0 /\ originRef # 0)} :
         IF ok
         THEN /\ curBranch' = "target"
              /\ localTip' = originRef
              /\ Goto("atTarget")
         ELSE /\ UNCHANGED <<curBranch, localTip>>
              /\ Return(FailResult("switch to <branch> failed"))
    /\ UNCHANGED <<mode, hasOrigin, hasCommits, originRef, remoteTip, markers,
                   rebaseDir, staged, unstaged, lsRemote, lsExit, warning, rebaseOut,
                   abortOut>>
    /\ OtherParts

\* 601-614
CheckAlreadyAtTarget ==
    /\ spc = "atTarget"
    /\ cmds' = cmds \o <<"rev-parse HEAD", "rev-parse origin/<branch>">>
    /\ IF AlreadyAtTarget THEN Return(SkipResult("already up to date"))
       ELSE IF mode = "hard" THEN Goto("midOp")
       ELSE IF mode = "soft" THEN Goto("stagedCheck")
       ELSE Goto("rebaseCheck")
    /\ UNCHANGED <<mode, repoFacts, lsRemote, lsExit, warning, rebaseOut, abortOut>>
    /\ OtherParts

\* Mutant of CheckMidOperation: the marker files are not looked at.
CheckMidOperationIgnored ==
    /\ spc = "midOp"
    /\ Goto("hardReset")
    /\ UNCHANGED <<mode, repoFacts, lsRemote, lsExit, cmds, warning, rebaseOut, abortOut>>
    /\ OtherParts

\* doHardReset 618-621
CheckMidOperation ==
    /\ spc = "midOp"
    /\ IF MidOpName(markers) # ""
       THEN Return(SkipResult("mid-" \o MidOpName(markers) \o " in progress"))
       ELSE Goto("hardReset")
    /\ UNCHANGED <<mode, repoFacts, lsRemote, lsExit, cmds, warning, rebaseOut, abortOut>>
    /\ OtherParts

\* doHardReset 623-635: git reset --hard origin/<branch>.
HardReset ==
    /\ spc = "hardReset"
    /\ Issue("reset --hard")
    /\ \E ok \in {b \in BOOLEAN : b => originRef # 0} :
         IF ok
         THEN /\ localTip' = originRef /\ staged' = FALSE /\ unstaged' = FALSE
              /\ Return(OkResult(""))
         ELSE /\ UNCHANGED <<localTip, staged, unstaged>>
              /\ Return(FailResult("reset --hard failed"))
    /\ UNCHANGED <<mode, hasOrigin, hasCommits, curBranch, originRef, remoteTip,
                   markers, rebaseDir, lsRemote, lsExit, warning, rebaseOut, abortOut>>
    /\ OtherParts

\* Mutant of StagedCheck: the result of the staged test is not kept.
StagedCheckNoWarning ==
    /\ spc = "stagedCheck"
    /\ Issue("diff --cached --quiet")
    /\ warning' = ""
    /\ Goto("softReset")
    /\ UNCHANGED <<mode, repoFacts, lsRemote, lsExit, rebaseOut, abortOut>>
    /\ OtherParts

\* doSoftReset 639-645: git diff --cached --quiet.
StagedCheck ==
    /\ spc = "stagedCheck"
    /\ Issue("diff --cached --quiet")
    /\ warning' = IF staged THEN "had staged changes before reset" ELSE ""
    /\ Goto("softReset")
    /\ UNCHANGED <<mode, repoFacts, lsRemote, lsExit, rebaseOut, abortOut>>
    /\ OtherParts

\* doSoftReset 647-659: git reset --soft origin/<branch>; the commits left
\* behind show up as staged changes.
SoftReset ==
    /\ spc = "softReset"
    /\ Issue("reset --soft")
    /\ \E ok \in {b \in BOOLEAN : b => originRef # 0} :
         IF ok
         THEN /\ localTip' = originRef /\ staged' = TRUE
              /\ Return(OkResult(warning))
         ELSE /\ UNCHANGED <<localTip, staged>>
              /\ Return(FailResult("reset --soft failed"))
    /\ UNCHANGED <<mode, hasOrigin, hasCommits, curBranch, originRef, remoteTip,
                   markers, rebaseDir, unstaged, lsRemote, lsExit, warning, rebaseOut,
                   abortOut>>
    /\ OtherParts

\* Mutant of CheckRebaseInProgress: the rebase directories are not looked at.
CheckRebaseInProgressIgnored ==
    /\ spc = "rebaseCheck"
    /\ Goto("dirtyCheck")
    /\ UNCHANGED <<mode, repoFacts, lsRemote, lsExit, cmds, warning, rebaseOut, abortOut>>
    /\ OtherParts

\* doRebase 663-666
CheckRebaseInProgress ==
    /\ spc = "rebaseCheck"
    /\ IF rebaseDir THEN Return(SkipResult("rebase already in progress"))
                    ELSE Goto("dirtyCheck")
    /\ UNCHANGED <<mode, repoFacts, lsRemote, lsExit, cmds, warning, rebaseOut, abortOut>>
    /\ OtherParts

\* doRebase 668-671
CheckDirtyTree ==
    /\ spc = "dirtyCheck"
    /\ Issue("status --porcelain")
    /\ IF DirtyStatus(staged, unstaged) # ""
       THEN Return(FailResult("working tree must be clean"))
       ELSE Goto("rebase")
    /\ UNCHANGED <<mode, repoFacts, lsRemote, lsExit, warning, rebaseOut, abortOut>>
    /\ OtherParts

\* Mutant of RunRebase: a failed rebase is reported without the abort.
RunRebaseNoAbort ==
    /\ spc = "rebase"
    /\ Issue("rebase")
    /\ \E out \in {o \in {"ok", "conflict", "error"} :
                     o \in {"ok", "conflict"} => originRef # 0} :
         /\ rebaseOut' = out
         /\ rebaseDir' = (out = "conflict")
         /\ UNCHANGED localTip
         /\ IF out = "ok" THEN Return(OkResult(""))
            ELSE Return(FailResult("conflict during rebase, aborted"))
    /\ UNCHANGED <<mode, hasOrigin, hasCommits, curBranch, originRef, remoteTip,
                   markers, staged, unstaged, lsRemote, lsExit, warning, abortOut>>
    /\ OtherParts

\* doRebase 673-681 and 695-696: git rebase origin/<branch>.  It ends well,
\* stops on a conflict (leaving the rebase directory) or fails otherwise
\* (leaving none); any error sends the code to the abort.
RunRebase ==
    /\ spc = "rebase"
    /\ Issue("rebase")
    /\ \E out \in {o \in {"ok", "conflict", "error"} :
                     o \in {"ok", "conflict"} => originRef # 0} :
         /\ rebaseOut' = out
         /\ rebaseDir' = (out = "conflict")
         /\ IF out = "ok"
            THEN /\ \E c \in 1..MaxCommit : localTip' = c
                 /\ Return(OkResult(""))
            ELSE /\ UNCHANGED localTip
                 /\ Goto("abort")
    /\ UNCHANGED <<mode, hasOrigin, hasCommits, curBranch, originRef, remoteTip,
                   markers, staged, unstaged, lsRemote, lsExit, warning, abortOut>>
    /\ OtherParts

\* doRebase 682-693: git rebase --abort, which fails when no rebase is in
\* progress.
AbortRebase ==
    /\ spc = "abort"
    /\ Issue("rebase --abort")
    /\ \E ok \in {b \in BOOLEAN : b => rebaseDir} :
         /\ abortOut' = IF ok THEN "ok" ELSE "fail"
         /\ rebaseDir' = IF ok THEN FALSE ELSE rebaseDir
         /\ IF ok
            THEN Return(FailResult("conflict during rebase, aborted"))
            ELSE Return(FailResult(
                   "conflict during rebase; abort failed - manual cleanup required"))
                 \* (the source writes an em dash where this string has "-")
    /\ UNCHANGED <<mode, hasOrigin, hasCommits, curBranch, localTip, originRef,
                   remoteTip, markers, staged, unstaged, lsRemote, lsExit, warning,
                   rebaseOut>>
    /\ OtherParts

ResetNext ==
    \/ CheckOriginExists \/ CheckHasCommits \/ CheckDetachedHEAD
    \/ CheckBranchOnOrigin \/ GetCurrentBranch \/ FetchOnBranch
    \/ SwitchLocalCheck \/ SwitchFetch \/ SwitchPlain \/ SwitchTrack
    \/ CheckAlreadyAtTarget \/ CheckMidOperation \/ HardReset
    \/ StagedCheck \/ SoftReset
    \/ CheckRebaseInProgress \/ CheckDirtyTree \/ RunRebase \/ AbortRebase

SpecReset == ResetInit /\ [][ResetNext]_vars

(***************************************************************************)
(* THE RUN  syncBranch  (src/unnamed/part_014:313-456)                     *)
(*                                                                         *)
(* The main goroutine's steps, the W workers, the feeder and the closer.   *)
(* A worker's call of processSingleReset is one step here: its result is   *)
(* one of the three outcome classes that SpecReset's machine returns.      *)
(* Repositories are 1..nRepos, in discovery order.                         *)
(***************************************************************************)
Repos == 1..nRepos

\* Mutant of WorkerIds: the loop runs once too often (i <= workers).
WorkerIdsOffByOne == 0..workers

\* The goroutines started by the loop at line 364: i = 0 .. workers-1.
WorkerIds == 1..workers

\* One representative ResetResult per outcome class.
SyncResults == {OkResult(""), SkipResult("already up to date"),
                FailResult("fetch failed")}

\* ---- PromptConfirmDestructive (internal/core/prompt.go:89-109).
\* Standard input is a sequence of one-character strings.
Whitespace == {" ", "\t", "\r", "\n"}

\* bufio.Reader.ReadString('\n'): the bytes up to and including the first
\* newline; an error (io.EOF) when the input ends before one.
NewlineAt(in) == {i \in 1..Len(in) : in[i] = "\n"}
ReadStringErr(in) == NewlineAt(in) = {}
ReadString(in) ==
    IF ReadStringErr(in) THEN in
    ELSE SubSeq(in, 1, CHOOSE i \in NewlineAt(in) : \A j \in NewlineAt(in) : i <= j)

LowerChar(c) ==
    CASE c = "Y" -> "y" [] c = "E" -> "e" [] c = "S" -> "s"
      [] c = "N" -> "n" [] c = "O" -> "o" [] OTHER -> c
ToLower(str) == [i \in 1..Len(str) |-> LowerChar(str[i])]

RECURSIVE TrimLeft(_)
TrimLeft(str) ==
    IF str # <<>> /\ Head(str) \in Whitespace THEN TrimLeft(Tail(str)) ELSE str
RECURSIVE TrimRight(_)
TrimRight(str) ==
    IF str # <<>> /\ str[Len(str)] \in Whitespace
    THEN TrimRight(SubSeq(str, 1, Len(str) - 1)) ELSE str
TrimSpace(str) == TrimRight(TrimLeft(str))

\* Mutant of PromptConfirmDestructive: an empty line counts as yes.
PromptConfirmDefaultYes(in) ==
    IF ReadStringErr(in) THEN FALSE
    ELSE TrimSpace(ToLower(ReadString(in))) \in {<<>>, <<"y">>, <<"y", "e", "s">>}

PromptConfirmDestructive(in) ==
    IF ReadStringErr(in) THEN FALSE
    ELSE TrimSpace(ToLower(ReadString(in))) \in {<<"y">>, <<"y", "e", "s">>}

\* What the operator may have typed (or not) when the prompt reads.
StdinInputs ==
    { <<"y", "\n">>, <<" ", "Y", "e", "S", " ", "\r", "\n">>,
      <<"n", "\n">>, <<"\n">>, <<>>, <<"y">>, <<"y", "e", "\n">>,
      <<"y", " ", "e", "s", "\n">>, <<"N", "O", "\n">>, <<"y", "e", "s">> }

DispInit ==
    /\ mode \in Modes
    /\ nRepos \in 0..MaxRepos
    /\ workers \in 0..MaxWorkers
    /\ stdinTTY \in BOOLEAN
    /\ mpc = "discover" /\ answer = <<>>
    /\ preflightRan = FALSE /\ prompted = FALSE /\ logDir = FALSE
    /\ repoCh = <<>> /\ repoClosed = FALSE /\ feederPc = "idle" /\ fed = 0
    /\ closerPc = "idle" /\ resCh = <<>> /\ resClosed = FALSE
    /\ wpc = <<>> /\ wrepo = <<>> /\ wres = <<>> /\ wg = 0
    /\ statuses = <<>> /\ handled = <<>> /\ results = <<>>
    /\ succeeded = 0 /\ failed = 0 /\ skipped = 0
    /\ skipReasons = NoSkipReasons /\ summary = NoSummary /\ exitCode = -1
    /\ RetryAtRest /\ ResetAtRest /\ SwitchAtRest /\ ProgAtRest
    /\ SideAtRest

poolVars == <<repoCh, repoClosed, feederPc, fed, closerPc, resCh, resClosed,
              wpc, wrepo, wres, wg, statuses, handled>>
aggVars  == <<results, succeeded, failed, skipped, skipReasons, summary>>
gateVars == <<stdinTTY, answer, preflightRan, prompted, logDir>>
OtherParts2 == UNCHANGED <<retryVars, resetVars, switchVars, progVars, sideVars>>

\* 314-328: discovery and filtering; an error exits 1, an empty list returns.
Discover ==
    /\ mpc = "discover"
    /\ \E err \in BOOLEAN :
         IF err THEN mpc' = "exited" /\ exitCode' = 1
         ELSE IF nRepos = 0 THEN mpc' = "returned" /\ exitCode' = 0
         ELSE /\ mpc' = IF mode = "hard" \/ mode = "rebase"
                        THEN "ttyCheck" ELSE "logManager"
              /\ UNCHANGED exitCode
    /\ UNCHANGED <<nRepos, workers, gateVars, poolVars, aggVars>>
    /\ OtherParts2

\* Mutant of TTYCheck: the result of the terminal test is not acted on.
TTYCheckIgnored ==
    /\ mpc = "ttyCheck"
    /\ mpc' = "preflight"
    /\ UNCHANGED <<nRepos, workers, gateVars, poolVars, aggVars, exitCode>>
    /\ OtherParts2

\* 331-337: os.Stdin.Stat() and the character-device test.
TTYCheck ==
    /\ mpc = "ttyCheck"
    /\ IF stdinTTY THEN mpc' = "preflight" /\ UNCHANGED exitCode
                   ELSE mpc' = "exited" /\ exitCode' = 1
    /\ UNCHANGED <<nRepos, workers, gateVars, poolVars, aggVars>>
    /\ OtherParts2

\* 339: preflightScan(repos, workers).
PreflightScan ==
    /\ mpc = "preflight"
    /\ preflightRan' = TRUE
    /\ mpc' = "prompt"
    /\ UNCHANGED <<nRepos, workers, stdinTTY, answer, prompted, logDir,
                   poolVars, aggVars, exitCode>>
    /\ OtherParts2

\* 340-343: the confirmation prompt; anything but a yes prints "Aborted."
\* and returns.
Prompt ==
    /\ mpc = "prompt"
    /\ prompted' = TRUE
    /\ \E in \in StdinInputs :
         /\ answer' = in
         /\ IF PromptConfirmDestructive(in)
            THEN mpc' = "logManager" /\ UNCHANGED exitCode
            ELSE mpc' = "returned" /\ exitCode' = 0
    /\ UNCHANGED <<nRepos, workers, stdinTTY, preflightRan, logDir, poolVars,
                   aggVars>>
    /\ OtherParts2

\* 350-354: NewLogManager creates the temporary log directory.
NewLogManager ==
    /\ mpc = "logManager"
    /\ \E err \in BOOLEAN :
         IF err THEN mpc' = "exited" /\ exitCode' = 1 /\ UNCHANGED logDir
         ELSE mpc' = "startPool" /\ logDir' = TRUE /\ UNCHANGED exitCode
    /\ UNCHANGED <<nRepos, workers, stdinTTY, answer, preflightRan, prompted,
                   poolVars, aggVars>>
    /\ OtherParts2

\* 356-406: NewProgressState, the two channels, wg.Add(1) and `go` for each
\* worker, then the feeder and the closer.
StartPool ==
    /\ mpc = "startPool"
    /\ statuses' = [i \in Repos |-> "waiting"]
    /\ handled' = [i \in Repos |-> 0]
    /\ repoCh' = <<>> /\ resCh' = <<>>
    /\ wpc' = [w \in WorkerIds |-> "recv"]
    /\ wrepo' = [w \in WorkerIds |-> 0]
    /\ wres' = [w \in WorkerIds |-> NoResult]
    /\ wg' = Cardinality(WorkerIds)
    /\ feederPc' = "send" /\ closerPc' = "wait"
    /\ mpc' = "aggregate"
    /\ UNCHANGED <<nRepos, workers, gateVars, repoClosed, fed, resClosed,
                   aggVars, exitCode>>
    /\ OtherParts2

\* 397-399: repoCh <- r (the channel holds len(repos), so the send never waits).
FeederSend ==
    /\ feederPc = "send" /\ fed < nRepos
    /\ Len(repoCh) < nRepos
    /\ repoCh' = Append(repoCh, fed + 1)
    /\ fed' = fed + 1
    /\ UNCHANGED <<nRepos, workers, mpc, gateVars, repoClosed, feederPc,
                   closerPc, resCh, resClosed, wpc, wrepo, wres, wg, statuses,
                   handled, aggVars, exitCode>>
    /\ OtherParts2

\* 400: close(repoCh).
FeederClose ==
    /\ feederPc = "send" /\ fed = nRepos
    /\ repoClosed' = TRUE
    /\ feederPc' = "done"
    /\ UNCHANGED <<nRepos, workers, mpc, gateVars, repoCh, fed, closerPc, resCh,
                   resClosed, wpc, wrepo, wres, wg, statuses, handled, aggVars,
                   exitCode>>
    /\ OtherParts2

\* Mutant of WorkerRecv: the repository is read but left in the queue.
WorkerRecvPeek(w) ==
    /\ wpc[w] = "recv" /\ repoCh # <<>>
    /\ wrepo' = [wrepo EXCEPT ![w] = Head(repoCh)]
    /\ handled' = [handled EXCEPT ![Head(repoCh)] = @ + 1]
    /\ wpc' = [wpc EXCEPT ![w] = "update"]
    /\ UNCHANGED <<nRepos, workers, mpc, gateVars, repoCh, repoClosed, feederPc,
                   fed, closerPc, resCh, resClosed, wres, wg, statuses, aggVars,
                   exitCode>>
    /\ OtherParts2

\* 368: `for r := range repoCh` receives a repository.
WorkerRecv(w) ==
    /\ wpc[w] = "recv" /\ repoCh # <<>>
    /\ wrepo' = [wrepo EXCEPT ![w] = Head(repoCh)]
    /\ repoCh' = Tail(repoCh)
    /\ handled' = [handled EXCEPT ![Head(repoCh)] = @ + 1]
    /\ wpc' = [wpc EXCEPT ![w] = "update"]
    /\ UNCHANGED <<nRepos, workers, mpc, gateVars, repoClosed, feederPc, fed,
                   closerPc, resCh, resClosed, wres, wg, statuses, aggVars,
                   exitCode>>
    /\ OtherParts2

\* 368 and 367: the range ends on the closed, drained channel; wg.Done().
WorkerExit(w) ==
    /\ wpc[w] = "recv" /\ repoCh = <<>> /\ repoClosed
    /\ wpc' = [wpc EXCEPT ![w] = "exited"]
    /\ wg' = wg - 1
    /\ UNCHANGED <<nRepos, workers, mpc, gateVars, repoCh, repoClosed, feederPc,
                   fed, closerPc, resCh, resClosed, wrepo, wres, statuses,
                   handled, aggVars, exitCode>>
    /\ OtherParts2

\* 369: progress.UpdateStatus(r.RelPath, statusProcessing, "").
WorkerStart(w) ==
    /\ wpc[w] = "update"
    /\ statuses' = [statuses EXCEPT ![wrepo[w]] = "processing"]
    /\ wpc' = [wpc EXCEPT ![w] = "process"]
    /\ UNCHANGED <<nRepos, workers, mpc, gateVars, repoCh, repoClosed, feederPc,
                   fed, closerPc, resCh, resClosed, wrepo, wres, wg, handled,
                   aggVars, exitCode>>
    /\ OtherParts2

\* 371-380: CreateLogFile, processSingleReset, logFile.Close().
WorkerProcess(w) ==
    /\ wpc[w] = "process"
    /\ \E res \in SyncResults : wres' = [wres EXCEPT ![w] = res]
    /\ wpc' = [wpc EXCEPT ![w] = "finish"]
    /\ UNCHANGED <<nRepos, workers, mpc, gateVars, repoCh, repoClosed, feederPc,
                   fed, closerPc, resCh, resClosed, wrepo, wg, statuses,
                   handled, aggVars, exitCode>>
    /\ OtherParts2

\* 382-389: the terminal UpdateStatus.
TerminalStatus(res) ==
    IF res.Skipped THEN "completed"
    ELSE IF res.Success THEN "completed"
    ELSE "failed"

WorkerFinish(w) ==
    /\ wpc[w] = "finish"
    /\ statuses' = [statuses EXCEPT ![wrepo[w]] = TerminalStatus(wres[w])]
    /\ wpc' = [wpc EXCEPT ![w] = "send"]
    /\ UNCHANGED <<nRepos, workers, mpc, gateVars, repoCh, repoClosed, feederPc,
                   fed, closerPc, resCh, resClosed, wrepo, wres, wg, handled,
                   aggVars, exitCode>>
    /\ OtherParts2

\* Mutant of WorkerSend: a worker whose operation failed sends the result
\* and stops instead of taking its next repository.
WorkerSendStopOnFailure(w) ==
    /\ wpc[w] = "send"
    /\ ~resClosed /\ Len(resCh) < nRepos
    /\ resCh' = Append(resCh, [repo |-> wrepo[w], res |-> wres[w]])
    /\ wrepo' = [wrepo EXCEPT ![w] = 0]
    /\ wres' = [wres EXCEPT ![w] = NoResult]
    /\ IF ~wres[w].Skipped /\ ~wres[w].Success
       THEN wpc' = [wpc EXCEPT ![w] = "exited"] /\ wg' = wg - 1
       ELSE wpc' = [wpc EXCEPT ![w] = "recv"] /\ UNCHANGED wg
    /\ UNCHANGED <<nRepos, workers, mpc, gateVars, repoCh, repoClosed, feederPc,
                   fed, closerPc, resClosed, statuses, handled,
                   aggVars, exitCode>>
    /\ OtherParts2

\* 391: resCh <- res (a send on a closed channel would panic; a full one
\* waits); the iteration's r and res go out of scope.
WorkerSend(w) ==
    /\ wpc[w] = "send"
    /\ ~resClosed /\ Len(resCh) < nRepos
    /\ resCh' = Append(resCh, [repo |-> wrepo[w], res |-> wres[w]])
    /\ wrepo' = [wrepo EXCEPT ![w] = 0]
    /\ wres' = [wres EXCEPT ![w] = NoResult]
    /\ wpc' = [wpc EXCEPT ![w] = "recv"]
    /\ UNCHANGED <<nRepos, workers, mpc, gateVars, repoCh, repoClosed, feederPc,
                   fed, closerPc, resClosed, wg, statuses, handled,
                   aggVars, exitCode>>
    /\ OtherParts2

\* Mutant of CloserClose: the queue is closed without waiting for the workers.
CloserCloseNoWait ==
    /\ closerPc = "wait"
    /\ resClosed' = TRUE
    /\ closerPc' = "done"
    /\ UNCHANGED <<nRepos, workers, mpc, gateVars, repoCh, repoClosed, feederPc,
                   fed, resCh, wpc, wrepo, wres, wg, statuses, handled, aggVars,
                   exitCode>>
    /\ OtherParts2

\* 403-406: wg.Wait(); close(resCh).
CloserClose ==
    /\ closerPc = "wait" /\ wg = 0
    /\ resClosed' = TRUE
    /\ closerPc' = "done"
    /\ UNCHANGED <<nRepos, workers, mpc, gateVars, repoCh, repoClosed, feederPc,
                   fed, resCh, wpc, wrepo, wres, wg, statuses, handled, aggVars,
                   exitCode>>
    /\ OtherParts2

\* 412-423: one iteration of `for res := range resCh`.
AggRecv ==
    /\ mpc = "aggregate" /\ resCh # <<>>
    /\ resCh' = Tail(resCh)
    /\ results' = Append(results, Head(resCh))
    /\ LET res == Head(resCh).res IN
         /\ skipped' = IF res.Skipped THEN skipped + 1 ELSE skipped
         /\ succeeded' = IF ~res.Skipped /\ res.Success
                         THEN succeeded + 1 ELSE succeeded
         /\ failed' = IF ~res.Skipped /\ ~res.Success THEN failed + 1 ELSE failed
         /\ skipReasons' = IF res.Skipped
                           THEN [skipReasons EXCEPT ![res.SkipReason] = @ + 1]
                           ELSE skipReasons
    /\ UNCHANGED summary
    /\ UNCHANGED <<nRepos, workers, mpc, gateVars, repoCh, repoClosed, feederPc,
                   fed, closerPc, resClosed, wpc, wrepo, wres, wg, statuses,
                   handled, exitCode>>
    /\ OtherParts2

\* 412: the range ends when resCh is closed and drained.
AggEnd ==
    /\ mpc = "aggregate" /\ resCh = <<>> /\ resClosed
    /\ mpc' = "summary"
    /\ UNCHANGED <<nRepos, workers, gateVars, poolVars, aggVars, exitCode>>
    /\ OtherParts2

\* ---- the summary block (425-444).
\* strings.Compare on two skip reasons.
StrLess(a, b) ==
    (CHOOSE i \in DOMAIN SkipReasonOrder : SkipReasonOrder[i] = a)
        < (CHOOSE i \in DOMAIN SkipReasonOrder : SkipReasonOrder[i] = b)

\* The keys of the map, and the orders in which `range` may yield them.
MapKeys(m) == {r \in DOMAIN m : m[r] > 0}
RangeOrders(m) ==
    {o \in [1..Cardinality(MapKeys(m)) -> MapKeys(m)] :
        \A i, j \in DOMAIN o : i # j => o[i] # o[j]}

\* Mutant of SortStrings: the slice is left as `range` filled it.
SortStringsLeftAlone(strs) == strs

\* sort.Strings (438), as an insertion sort.
RECURSIVE SortStrings(_)
SortStrings(strs) ==
    IF strs = <<>> THEN <<>>
    ELSE LET rest == SortStrings(SubSeq(strs, 1, Len(strs) - 1))
             x    == strs[Len(strs)]
             k    == Cardinality({i \in DOMAIN rest : ~StrLess(x, rest[i])})
         IN SubSeq(rest, 1, k) \o <<x>> \o SubSeq(rest, k + 1, Len(rest))

\* 430-444: what the summary block prints; the skipped line lists
\* `reason: count` for the sorted reasons.
SummaryBlock(order) ==
    [repos |-> nRepos, succeeded |-> succeeded, failed |-> failed,
     skipped |-> skipped,
     reasons |-> IF skipped > 0
                 THEN LET reasons == SortStrings(order)
                      IN [i \in DOMAIN reasons |->
                             <<reasons[i], skipReasons[reasons[i]]>>]
                 ELSE <<>>]

\* Mutant of Summary: a skipped repository also makes the run exit 1.
SummarySkipFails ==
    /\ mpc = "summary"
    /\ \E order \in RangeOrders(skipReasons) : summary' = SummaryBlock(order)
    /\ exitCode' = IF failed + skipped > 0 THEN 1 ELSE 0
    /\ mpc' = IF failed + skipped > 0 THEN "exited" ELSE "returned"
    /\ UNCHANGED <<nRepos, workers, gateVars, poolVars, results, succeeded,
                   failed, skipped, skipReasons>>
    /\ OtherParts2

\* 425-455: RenderFinal, StopInput, the summary, the logs prompt, the exit code.
Summary ==
    /\ mpc = "summary"
    /\ \E order \in RangeOrders(skipReasons) : summary' = SummaryBlock(order)
    /\ exitCode' = IF failed > 0 THEN 1 ELSE 0
    /\ mpc' = IF failed > 0 THEN "exited" ELSE "returned"
    /\ UNCHANGED <<nRepos, workers, gateVars, poolVars, results, succeeded,
                   failed, skipped, skipReasons>>
    /\ OtherParts2

Next ==
    \/ Discover \/ TTYCheck \/ PreflightScan \/ Prompt \/ NewLogManager
    \/ StartPool \/ FeederSend \/ FeederClose
    \/ \E w \in DOMAIN wpc : WorkerRecv(w)
    \/ \E w \in DOMAIN wpc : WorkerExit(w)
    \/ \E w \in DOMAIN wpc : WorkerStart(w)
    \/ \E w \in DOMAIN wpc : WorkerProcess(w)
    \/ \E w \in DOMAIN wpc : WorkerFinish(w)
    \/ \E w \in DOMAIN wpc : WorkerSend(w)
    \/ CloserClose \/ AggRecv \/ AggEnd \/ Summary

Spec == DispInit /\ [][Next]_vars

\* ---- The pool alone, from the point where the log directory exists
\* (356), with the goroutines scheduled for as long as one of them can run.
\* The worker count is the flag's value as given (150-151), which no code
\* validates: it may be 0 or negative.
PoolInit ==
    /\ mode = "soft"
    /\ nRepos \in 1..MaxRepos
    /\ workers \in (0 - 1)..MaxWorkers
    /\ stdinTTY = TRUE
    /\ mpc = "startPool" /\ answer = <<>>
    /\ preflightRan = FALSE /\ prompted = FALSE /\ logDir = TRUE
    /\ repoCh = <<>> /\ repoClosed = FALSE /\ feederPc = "idle" /\ fed = 0
    /\ closerPc = "idle" /\ resCh = <<>> /\ resClosed = FALSE
    /\ wpc = <<>> /\ wrepo = <<>> /\ wres = <<>> /\ wg = 0
    /\ statuses = <<>> /\ handled = <<>> /\ results = <<>>
    /\ succeeded = 0 /\ failed = 0 /\ skipped = 0
    /\ skipReasons = NoSkipReasons /\ summary = NoSummary /\ exitCode = -1
    /\ RetryAtRest /\ ResetAtRest /\ SwitchAtRest /\ ProgAtRest
    /\ SideAtRest

PoolNext ==
    \/ StartPool \/ FeederSend \/ FeederClose
    \/ \E w \in DOMAIN wpc : WorkerRecv(w)
    \/ \E w \in DOMAIN wpc : WorkerExit(w)
    \/ \E w \in DOMAIN wpc : WorkerStart(w)
    \/ \E w \in DOMAIN wpc : WorkerProcess(w)
    \/ \E w \in DOMAIN wpc : WorkerFinish(w)
    \/ \E w \in DOMAIN wpc : WorkerSend(w)
    \/ CloserClose \/ AggRecv \/ AggEnd \/ Summary

SpecPoolLive == PoolInit /\ [][PoolNext]_vars /\ WF_vars(PoolNext)

\* ---- The aggregation alone, from a state in which the pool has finished
\* before the main goroutine received anything: resCh holds len(repos)
\* results (it is that large, 358), in any arrival order.
SummaryResults == {OkResult(""), FailResult("fetch failed")}
                      \cup {SkipResult(r) : r \in SkipReasonTexts}

ArrivalOrders(n) ==
    {o \in [1..n -> 1..n] : \A i, j \in 1..n : i # j => o[i] # o[j]}

SummaryInit ==
    /\ mode \in Modes
    /\ nRepos \in 1..MaxRepos
    /\ workers = 1
    /\ \E o \in ArrivalOrders(nRepos) :
         \E rs \in [1..nRepos -> SummaryResults] :
            /\ resCh = [i \in 1..nRepos |-> [repo |-> o[i], res |-> rs[i]]]
            /\ statuses = [r \in 1..nRepos |->
                              TerminalStatus(rs[CHOOSE i \in 1..nRepos : o[i] = r])]
    /\ mpc = "aggregate" /\ stdinTTY = TRUE /\ answer = <<>>
    /\ preflightRan = FALSE /\ prompted = FALSE /\ logDir = TRUE
    /\ repoCh = <<>> /\ repoClosed = TRUE /\ feederPc = "done" /\ fed = nRepos
    /\ closerPc = "done" /\ resClosed = TRUE
    /\ wpc = [w \in WorkerIds |-> "exited"]
    /\ wrepo = [w \in WorkerIds |-> 0]
    /\ wres = [w \in WorkerIds |-> NoResult]
    /\ wg = 0
    /\ handled = [r \in Repos |-> 1]
    /\ results = <<>> /\ succeeded = 0 /\ failed = 0 /\ skipped = 0
    /\ skipReasons = NoSkipReasons /\ summary = NoSummary /\ exitCode = -1
    /\ RetryAtRest /\ ResetAtRest /\ SwitchAtRest /\ ProgAtRest
    /\ SideAtRest

SummaryNext == AggRecv \/ AggEnd \/ Summary

SpecSummary == SummaryInit /\ [][SummaryNext]_vars

(***************************************************************************)
(* SWITCH STATE MACHINE  processSingleRepo  (internal/core/switch.go:417-504) *)
(*                                                                         *)
(* One action per git command the function runs, on the repository state   *)
(* of the sync machine (localTip, originRef, remoteTip, curBranch).        *)
(***************************************************************************)
SwitchOk          == [Success |-> TRUE, Error |-> ""]
SwitchFail(err)   == [Success |-> FALSE, Error |-> err]
NoSwitchOut == [local |-> "none", fetch |-> "none", switch |-> "none",
                track |-> "none"]

switchRest == <<mode, spc, hasOrigin, hasCommits, remoteTip, markers, rebaseDir,
                staged, unstaged, lsRemote, warning, rebaseOut, abortOut, result>>
OtherParts4 == UNCHANGED <<retryVars, dispVars, progVars, sideVars>>

\* What a failing git command prints; cmd.Stdout and cmd.Stderr are the log
\* file when there is one (454-457, 475-478, 487-490) and are discarded
\* otherwise.
OutputOf(c) == "output of git " \o c
ToLogFile(c, cmdFailed) ==
    /\ swLog' = IF swLogFile /\ cmdFailed THEN Append(swLog, OutputOf(c)) ELSE swLog
    /\ UNCHANGED swLogFile

SwitchInit ==
    /\ hasOrigin \in BOOLEAN /\ hasCommits \in BOOLEAN
    /\ curBranch \in {"target", "other", "detached"}
    /\ localTip \in 0..MaxCommit /\ originRef \in 0..MaxCommit
    /\ remoteTip \in 0..MaxCommit
    /\ hasCommits => (curBranch = "target" => localTip # 0)
    /\ ~hasCommits => (localTip = 0 /\ curBranch # "detached")
    /\ ~hasOrigin => (originRef = 0 /\ remoteTip = 0)
    /\ swpc = "localCheck" /\ swResult = NoSwitchResult /\ swOut = NoSwitchOut
    /\ swLogFile \in BOOLEAN /\ swLog = <<>>
    /\ cmds = <<>> /\ lsExit = "none"
    /\ mode = "soft" /\ spc = "idle" /\ markers = {} /\ rebaseDir = FALSE
    /\ staged = FALSE /\ unstaged = FALSE /\ lsRemote = "none" /\ warning = ""
    /\ rebaseOut = "none" /\ abortOut = "none" /\ result = NoResult
    /\ RetryAtRest /\ DispAtRest /\ ProgAtRest
    /\ SideAtRest

\* 427-431: git show-ref --verify --quiet refs/heads/<target>.
LocalCheck ==
    /\ swpc = "localCheck"
    /\ Issue("show-ref")
    /\ swOut' = [swOut EXCEPT !.local = IF localTip # 0 THEN "exists" ELSE "absent"]
    /\ swpc' = IF localTip # 0 THEN "switch" ELSE "remoteCheck"
    /\ UNCHANGED <<swResult, lsExit, curBranch, localTip, originRef, switchRest,
                   swLogFile, swLog>>
    /\ OtherParts4

\* Mutant of RemoteCheck: the answer of the remote query is not acted on.
RemoteCheckIgnored ==
    /\ swpc = "remoteCheck"
    /\ Issue("ls-remote")
    /\ \E e \in {x \in LsRemoteEndsOf(remoteTip) :
                   ~hasOrigin => x \notin {"exit 0", "exit 2"}} :
         lsExit' = e
    /\ swpc' = "fetch"
    /\ UNCHANGED <<swResult, swOut, curBranch, localTip, originRef, switchRest,
                   swLogFile, swLog>>
    /\ OtherParts4

\* 433-437 and 466-469: git ls-remote --exit-code --heads origin <target>;
\* every end but exit 0 is "branch not found".
RemoteCheck ==
    /\ swpc = "remoteCheck"
    /\ Issue("ls-remote")
    /\ \E e \in {x \in LsRemoteEndsOf(remoteTip) :
                   ~hasOrigin => x \notin {"exit 0", "exit 2"}} :
         /\ lsExit' = e
         /\ IF e = "exit 0"
            THEN swpc' = "fetch" /\ UNCHANGED swResult
            ELSE swpc' = "done" /\ swResult' = SwitchFail("branch not found")
    /\ UNCHANGED <<swOut, curBranch, localTip, originRef, switchRest,
                   swLogFile, swLog>>
    /\ OtherParts4

\* 438-465: the shallow test and git fetch origin [--depth=1] <target>.
FetchCmd ==
    /\ swpc = "fetch"
    /\ cmds' = cmds \o <<"rev-parse --is-shallow-repository", "fetch">>
    /\ \E ok \in {b \in BOOLEAN : b => remoteTip # 0} :
         /\ originRef' = IF ok THEN remoteTip ELSE originRef
         /\ swOut' = [swOut EXCEPT !.fetch = IF ok THEN "ok" ELSE "fail"]
         /\ ToLogFile("fetch", ~ok)
         /\ IF ok THEN swpc' = "switch" /\ UNCHANGED swResult
                  ELSE swpc' = "done" /\ swResult' = SwitchFail("fetch failed")
    /\ UNCHANGED <<lsExit, curBranch, localTip, switchRest>>
    /\ OtherParts4

\* 472-482: git switch <target>.  Without a local branch it can only
\* succeed by creating one from origin/<target>.
SwitchCmd ==
    /\ swpc = "switch"
    /\ Issue("switch")
    /\ \E ok \in {b \in BOOLEAN : b => (localTip # 0 \/ originRef # 0)} :
         IF ok
         THEN /\ curBranch' = "target"
              /\ localTip' = IF localTip # 0 THEN localTip ELSE originRef
              /\ swOut' = [swOut EXCEPT !.switch = "ok"]
              /\ ToLogFile("switch", FALSE)
              /\ swpc' = "done" /\ swResult' = SwitchOk
         ELSE /\ UNCHANGED <<curBranch, localTip, swResult>>
              /\ swOut' = [swOut EXCEPT !.switch = "fail"]
              /\ ToLogFile("switch", TRUE)
              /\ swpc' = "track"
    /\ UNCHANGED <<lsExit, originRef, switchRest>>
    /\ OtherParts4

\* 484-503: git switch -c <target> --track origin/<target>.
TrackCmd ==
    /\ swpc = "track"
    /\ Issue("switch -c --track")
    /\ \E ok \in {b \in BOOLEAN : b => (localTip = 0 /\ originRef # 0)} :
         IF ok
         THEN /\ curBranch' = "target"
              /\ localTip' = originRef
              /\ swOut' = [swOut EXCEPT !.track = "ok"]
              /\ ToLogFile("switch -c --track", FALSE)
              /\ swResult' = SwitchOk
         ELSE /\ UNCHANGED <<curBranch, localTip>>
              /\ swOut' = [swOut EXCEPT !.track = "fail"]
              /\ ToLogFile("switch -c --track", TRUE)
              /\ swResult' = SwitchFail("switch failed")
    /\ swpc' = "done"
    /\ UNCHANGED <<lsExit, originRef, switchRest>>
    /\ OtherParts4

SwitchNext == LocalCheck \/ RemoteCheck \/ FetchCmd \/ SwitchCmd \/ TrackCmd

SpecSwitch == SwitchInit /\ [][SwitchNext]_vars

\* ---- The same machine when an external process may never exit.  Every
\* command of processSingleRepo is built with exec.Command (427, 435, 438,
\* 452, 474, 487), with no context and no deadline: Run() returns when the
\* process exits, so a process that never exits leaves the function in the
\* call.
CommandAt(pos) ==
    CASE pos = "localCheck"  -> "show-ref"
      [] pos = "remoteCheck" -> "ls-remote"
      [] pos = "fetch"       -> "fetch"
      [] pos = "switch"      -> "switch"
      [] pos = "track"       -> "switch -c --track"

SwitchHang ==
    /\ swpc \in {"localCheck", "remoteCheck", "fetch", "switch", "track"}
    /\ Issue(CommandAt(swpc))
    /\ swpc' = "hung"
    /\ UNCHANGED <<swResult, swOut, lsExit, curBranch, localTip, originRef,
                   switchRest, swLogFile, swLog>>
    /\ OtherParts4

SwitchLiveNext == SwitchNext \/ SwitchHang

\* The goroutine that runs processSingleRepo keeps running while it can.
SpecSwitchLive ==
    SwitchInit /\ [][SwitchLiveNext]_vars /\ WF_vars(SwitchLiveNext)

(***************************************************************************)
(* THE PROGRESS MONITOR  ProgressState  (src/unnamed/part_010:28-360)      *)
(*                                                                         *)
(* The pool's workers, the spinner goroutine and the input listener on one *)
(* ProgressState.  Every method takes ps.mu; taking the lock and the       *)
(* locked section are separate steps.  The feeder has already queued the   *)
(* repositories (the queue holds them all) and closed the queue; the       *)
(* workers' receive, operation, send and exit are the actions of the run.  *)
(***************************************************************************)
Free == <<"free", 0>>

\* Go's integer division: the quotient is truncated toward zero; a zero
\* divisor is a runtime error, which the callers test for (totalPagesPanics).
GoDiv(a, b) ==
    CASE b > 0 /\ a >= 0 -> a \div b
      [] b > 0 /\ a < 0  -> 0 - ((0 - a) \div b)
      [] b < 0 /\ a >= 0 -> 0 - (a \div (0 - b))
      [] b < 0 /\ a < 0  -> (0 - a) \div (0 - b)

\* totalPages (259-264)
totalPages ==
    IF ~paginationMode THEN 1
    ELSE GoDiv(nRepos + maxDisplayedRepos - 1, maxDisplayedRepos)

\* totalPages 263: integer divide by zero.
totalPagesPanics == paginationMode /\ maxDisplayedRepos = 0

\* countStatuses (197-211): completed + failed.
TerminalCount ==
    Cardinality({r \in DOMAIN statuses : statuses[r] \in {"completed", "failed"}})

\* NewProgressState (47-68) and StartInput (266-289): the spinner runs on an
\* ANSI terminal; the listener runs when, besides, the list is paginated,
\* standard input is a terminal and the keyboard could be opened (otherwise
\* pagination is switched off).
ProgInit ==
    /\ mode \in {"soft"}
    /\ nRepos \in 1..MaxRepos
    /\ workers \in 1..MaxWorkers
    /\ maxDisplayedRepos \in 1..MaxPageSize
    /\ supportsANSI \in BOOLEAN
    /\ inputPc \in (IF supportsANSI /\ nRepos > maxDisplayedRepos
                    THEN {"key", "off"} ELSE {"off"})
    /\ paginationMode \in
         (IF nRepos > maxDisplayedRepos
          THEN (IF inputPc = "key" \/ ~supportsANSI THEN {TRUE} ELSE BOOLEAN)
          ELSE {FALSE})
    /\ spinnerPc = (IF supportsANSI THEN "tick" ELSE "off")
    /\ mu = Free /\ spinnerIndex = 0 /\ currentPage = 0
    /\ statuses = [r \in Repos |-> "waiting"]
    /\ trail = [r \in Repos |-> <<>>]
    /\ handled = [r \in Repos |-> 0]
    /\ repoCh = [i \in 1..nRepos |-> i] /\ fed = nRepos /\ repoClosed = TRUE
    /\ feederPc = "done" /\ closerPc = "wait"
    /\ resCh = <<>> /\ resClosed = FALSE
    /\ wpc = [w \in WorkerIds |-> "recv"]
    /\ wrepo = [w \in WorkerIds |-> 0]
    /\ wres = [w \in WorkerIds |-> NoResult]
    /\ wg = workers
    /\ mpc = "aggregate" /\ stdinTTY = TRUE /\ answer = <<>>
    /\ preflightRan = FALSE /\ prompted = FALSE /\ logDir = TRUE
    /\ results = <<>> /\ succeeded = 0 /\ failed = 0 /\ skipped = 0
    /\ skipReasons = NoSkipReasons /\ summary = NoSummary
    /\ exitCode = -1
    /\ RetryAtRest /\ ResetAtRest /\ SwitchAtRest
    /\ SideAtRest

progRest == <<spinnerIndex, currentPage, maxDisplayedRepos, supportsANSI,
              paginationMode>>
poolRest == <<nRepos, workers, mpc, gateVars, repoCh, repoClosed, feederPc, fed,
              closerPc, resCh, resClosed, wrepo, wres, wg, handled, aggVars,
              exitCode>>
OtherParts3 == UNCHANGED <<retryVars, resetVars, switchVars, sideVars>>

\* UpdateStatus 84: ps.mu.Lock(), called by a worker at part_014:369 and
\* 382-389.
UpdateStatusLock(w) ==
    /\ wpc[w] \in {"update", "finish"}
    /\ mu = Free
    /\ mu' = <<"worker", w>>
    /\ wpc' = [wpc EXCEPT ![w] = IF @ = "update" THEN "updateLocked"
                                                  ELSE "finishLocked"]
    /\ UNCHANGED <<statuses, trail, spinnerPc, inputPc, progRest,
                   poolRest>>
    /\ OtherParts3

\* Mutant of UpdateStatusWrite: the switch has no case for statusProcessing.
UpdateStatusWriteNoProcessing(w) ==
    /\ wpc[w] \in {"updateLocked", "finishLocked"}
    /\ mu = <<"worker", w>>
    /\ IF wpc[w] = "updateLocked"
       THEN UNCHANGED <<statuses, trail>>
       ELSE LET st == TerminalStatus(wres[w]) IN
            /\ statuses' = [statuses EXCEPT ![wrepo[w]] = st]
            /\ trail' = [trail EXCEPT ![wrepo[w]] = Append(@, st)]
    /\ mu' = Free
    /\ wpc' = [wpc EXCEPT ![w] = IF @ = "updateLocked" THEN "process" ELSE "send"]
    /\ UNCHANGED <<spinnerPc, inputPc, progRest, poolRest>>
    /\ OtherParts3

\* UpdateStatus 86-102: findRepoIndex, the switch on the new status,
\* renderLocked, ps.mu.Unlock().
UpdateStatusWrite(w) ==
    /\ wpc[w] \in {"updateLocked", "finishLocked"}
    /\ mu = <<"worker", w>>
    /\ LET st == IF wpc[w] = "updateLocked" THEN "processing"
                 ELSE TerminalStatus(wres[w]) IN
         /\ statuses' = [statuses EXCEPT ![wrepo[w]] = st]
         /\ trail' = [trail EXCEPT ![wrepo[w]] = Append(@, st)]
    /\ mu' = Free
    /\ wpc' = [wpc EXCEPT ![w] = IF @ = "updateLocked" THEN "process" ELSE "send"]
    /\ UNCHANGED <<spinnerPc, inputPc, progRest, poolRest>>
    /\ OtherParts3

\* runSpinner 298-299: a tick arrives; ps.mu.Lock().  The ticks that can still
\* advance the frame are counted up to MaxTicks.
SpinnerLock ==
    /\ spinnerPc = "tick"
    /\ spinnerIndex < MaxTicks \/ TerminalCount = nRepos
    /\ mu = Free
    /\ mu' = <<"spinner", 0>>
    /\ spinnerPc' = "locked"
    /\ UNCHANGED <<statuses, trail, wpc, inputPc, progRest, poolRest>>
    /\ OtherParts3

\* runSpinner 300-305: the frame advances while some repository is not in a
\* terminal state; ps.mu.Unlock().
SpinnerTick ==
    /\ spinnerPc = "locked"
    /\ mu = <<"spinner", 0>>
    /\ spinnerIndex' = IF TerminalCount < nRepos
                       THEN (spinnerIndex + 1) % NumSpinnerFrames
                       ELSE spinnerIndex
    /\ mu' = Free
    /\ spinnerPc' = "tick"
    /\ UNCHANGED <<statuses, trail, wpc, inputPc, currentPage,
                   maxDisplayedRepos, supportsANSI, paginationMode, poolRest>>
    /\ OtherParts3

Keys == {"down", "up", "other"}

\* handleInput 332-337: keyboard.GetKey() returns a key; ps.mu.Lock().
InputLock ==
    /\ inputPc = "key"
    /\ mu = Free
    /\ mu' = <<"input", 0>>
    /\ inputPc' = "locked"
    /\ UNCHANGED <<statuses, trail, wpc, spinnerPc, progRest, poolRest>>
    /\ OtherParts3

\* handleInput 338-356: on the key read, the page moves within
\* 0 .. totalPages()-1; ps.mu.Unlock().
InputHandle ==
    /\ inputPc = "locked"
    /\ mu = <<"input", 0>>
    /\ \E key \in Keys :
         currentPage' =
           IF key = "down" /\ currentPage < totalPages - 1 THEN currentPage + 1
           ELSE IF key = "up" /\ currentPage > 0 THEN currentPage - 1
           ELSE currentPage
    /\ mu' = Free
    /\ inputPc' = "key"
    /\ UNCHANGED <<statuses, trail, wpc, spinnerPc, spinnerIndex,
                   maxDisplayedRepos, supportsANSI, paginationMode, poolRest>>
    /\ OtherParts3

ProgNext ==
    \/ \E w \in DOMAIN wpc : WorkerRecv(w)
    \/ \E w \in DOMAIN wpc : UpdateStatusLock(w)
    \/ \E w \in DOMAIN wpc : UpdateStatusWrite(w)
    \/ \E w \in DOMAIN wpc : WorkerProcess(w)
    \/ \E w \in DOMAIN wpc : WorkerSend(w)
    \/ \E w \in DOMAIN wpc : WorkerExit(w)
    \/ SpinnerLock \/ SpinnerTick \/ InputLock \/ InputHandle

SpecProgress == ProgInit /\ [][ProgNext]_vars

\* ---- StartInput (266-289), called by the main goroutine after
\* NewProgressState and the first render, before the workers are started.
\* The spinner goroutine runs from line 268 on.
StartInit ==
    /\ mode \in {"soft"}
    /\ nRepos \in 1..MaxRepos
    /\ workers = 1
    /\ maxDisplayedRepos \in 1..MaxPageSize
    /\ supportsANSI \in BOOLEAN
    /\ stdinTTY \in BOOLEAN
    /\ paginationMode = (nRepos > maxDisplayedRepos)
    /\ spinnerPc = "off" /\ inputPc = "off"
    /\ mu = Free /\ spinnerIndex = 0 /\ currentPage = 0
    /\ statuses = [r \in Repos |-> "waiting"]
    /\ trail = [r \in Repos |-> <<>>]
    /\ mpc = "render" /\ answer = <<>>
    /\ preflightRan = FALSE /\ prompted = FALSE /\ logDir = TRUE
    /\ repoCh = <<>> /\ repoClosed = FALSE /\ fed = 0
    /\ feederPc = "idle" /\ closerPc = "idle"
    /\ resCh = <<>> /\ resClosed = FALSE /\ wpc = <<>> /\ wrepo = <<>>
    /\ wres = <<>> /\ wg = 0 /\ handled = <<>>
    /\ results = <<>> /\ succeeded = 0 /\ failed = 0 /\ skipped = 0
    /\ skipReasons = NoSkipReasons /\ summary = NoSummary /\ exitCode = -1
    /\ RetryAtRest /\ ResetAtRest /\ SwitchAtRest
    /\ SideAtRest

startRest == <<nRepos, workers, gateVars, repoCh, repoClosed, feederPc, fed,
               closerPc, resCh, resClosed, wpc, wrepo, wres, wg, handled,
               aggVars, exitCode, statuses, trail, spinnerIndex,
               currentPage, maxDisplayedRepos, supportsANSI>>

\* render (114-118), called at part_014:357: ps.mu.Lock().
FirstRenderLock ==
    /\ mpc = "render"
    /\ mu = Free
    /\ mu' = <<"main", 0>>
    /\ mpc' = "renderLocked"
    /\ UNCHANGED <<paginationMode, spinnerPc, inputPc, startRest>>
    /\ OtherParts3

\* render: renderLocked and the deferred ps.mu.Unlock().
FirstRender ==
    /\ mpc = "renderLocked"
    /\ mu = <<"main", 0>>
    /\ mu' = Free
    /\ mpc' = "startInput"
    /\ UNCHANGED <<paginationMode, spinnerPc, inputPc, startRest>>
    /\ OtherParts3

\* 267-269: go ps.runSpinner() on an ANSI terminal.
StartSpinner ==
    /\ mpc = "startInput"
    /\ spinnerPc' = IF supportsANSI THEN "tick" ELSE spinnerPc
    /\ mpc' = "checkMode"
    /\ UNCHANGED <<mu, paginationMode, inputPc, startRest>>
    /\ OtherParts3

\* 271-273: ps.paginationMode and ps.supportsANSI are read, ps.mu not taken.
StartCheckMode ==
    /\ mpc = "checkMode"
    /\ mpc' = IF ~paginationMode \/ ~supportsANSI THEN "started" ELSE "stdinStat"
    /\ UNCHANGED <<mu, paginationMode, spinnerPc, inputPc, startRest>>
    /\ OtherParts3

\* 275-278: os.Stdin.Stat() and the character-device test.
StartStdinStat ==
    /\ mpc = "stdinStat"
    /\ mpc' = IF stdinTTY THEN "keyboardOpen" ELSE "started"
    /\ UNCHANGED <<mu, paginationMode, spinnerPc, inputPc, startRest>>
    /\ OtherParts3

\* 280-288: keyboard.Open(); on an error ps.paginationMode is set to false,
\* ps.mu not taken; otherwise go ps.handleInput().
StartKeyboardOpen ==
    /\ mpc = "keyboardOpen"
    /\ \E err \in BOOLEAN :
         IF err THEN paginationMode' = FALSE /\ UNCHANGED inputPc
                ELSE inputPc' = "key" /\ UNCHANGED paginationMode
    /\ mpc' = "started"
    /\ UNCHANGED <<mu, spinnerPc, startRest>>
    /\ OtherParts3

StartNext ==
    \/ FirstRenderLock \/ FirstRender
    \/ StartSpinner \/ StartCheckMode \/ StartStdinStat \/ StartKeyboardOpen
    \/ SpinnerLock \/ SpinnerTick \/ InputLock \/ InputHandle

SpecStart == StartInit /\ [][StartNext]_vars

(***************************************************************************)
(* THE CONFIGURATION  Config  (src/unnamed/part_014:26-106)                *)
(*                                                                         *)
(* Paths are sequences of one-character strings; the separator is "/".     *)
(***************************************************************************)
MaxDirs == 2

Sep == "/"

\* The directory names the two flags may carry, and the relative paths of
\* discovered repositories (filepath.Rel gives them clean).
DirNames == { <<"a">>, <<"b">>, <<"a", "b">>, <<"a", "/", "b">>, <<"a", "/">>,
              <<".">> }
RelPaths == { <<"a">>, <<"b">>, <<"a", "b">>, <<"a", "/", "b">>,
              <<"a", "b", "/", "a">>, <<"b", "/", "a">>, <<".">> }

\* strings.Split(path, "/") without the empty elements.
RECURSIVE SplitPath(_)
SplitPath(path) ==
    IF path = <<>> THEN <<>>
    ELSE IF Head(path) = Sep THEN SplitPath(Tail(path))
    ELSE LET seps == {i \in DOMAIN path : path[i] = Sep}
             n    == IF seps = {} THEN Len(path)
                     ELSE (CHOOSE i \in seps : \A j \in seps : i <= j) - 1
         IN <<SubSeq(path, 1, n)>> \o SplitPath(SubSeq(path, n + 1, Len(path)))

RECURSIVE JoinPath(_)
JoinPath(elems) ==
    IF elems = <<>> THEN <<>>
    ELSE IF Len(elems) = 1 THEN elems[1]
    ELSE elems[1] \o <<Sep>> \o JoinPath(Tail(elems))

\* filepath.Clean: repeated separators become one, "." elements go, a ".."
\* element takes the element before it with it (at the root it goes alone),
\* a trailing separator goes, and the empty result is ".".
RECURSIVE CleanElems(_, _, _)
CleanElems(elems, kept, rooted) ==
    IF elems = <<>> THEN kept
    ELSE LET e == Head(elems) IN
         IF e = <<".">> THEN CleanElems(Tail(elems), kept, rooted)
         ELSE IF e = <<".", ".">>
         THEN IF kept # <<>> /\ kept[Len(kept)] # <<".", ".">>
              THEN CleanElems(Tail(elems), SubSeq(kept, 1, Len(kept) - 1), rooted)
              ELSE IF rooted THEN CleanElems(Tail(elems), kept, rooted)
              ELSE CleanElems(Tail(elems), Append(kept, e), rooted)
         ELSE CleanElems(Tail(elems), Append(kept, e), rooted)

Clean(path) ==
    LET rooted == path # <<>> /\ Head(path) = Sep
        body   == JoinPath(CleanElems(SplitPath(path), <<>>, rooted))
        out    == IF rooted THEN <<Sep>> \o body ELSE body
    IN IF out = <<>> THEN <<".">> ELSE out

\* strings.HasPrefix
HasPrefix(str, prefix) ==
    Len(prefix) <= Len(str) /\ SubSeq(str, 1, Len(prefix)) = prefix

\* isParentPath (80-92)
isParentPath(parent, child) ==
    \/ Clean(parent) = Clean(child)
    \/ HasPrefix(Clean(child) \o <<Sep>>, Clean(parent) \o <<Sep>>)

\* containsPath (64-78)
containsPath(set, path) ==
    \/ Clean(path) \in set
    \/ \E dir \in set : isParentPath(dir, Clean(path))

\* Mutant of shouldExecuteInRepo: the skip set is consulted first.
shouldExecuteInRepoSkipFirst(path) ==
    IF skipSet # {} /\ containsPath(skipSet, path) THEN FALSE
    ELSE IF includeSet # {} THEN containsPath(includeSet, path)
    ELSE TRUE

\* shouldExecuteInRepo (52-62)
shouldExecuteInRepo(path) ==
    IF includeSet # {} THEN containsPath(includeSet, path)
    ELSE IF skipSet # {} THEN ~containsPath(skipSet, path)
    ELSE TRUE

DirLists == {ds \in SUBSET DirNames : Cardinality(ds) <= MaxDirs}

FilterInit ==
    /\ cfgPc = "new"
    /\ skipDirs \in DirLists /\ includeDirs \in DirLists
    /\ skipSet = {} /\ includeSet = {} /\ relPath = <<>> /\ selected = FALSE
    /\ mode = "soft"
    /\ RetryAtRest /\ ResetAtRest /\ DispAtRest /\ SwitchAtRest /\ ProgAtRest
    /\ LogAtRest /\ StopAtRest /\ RenderAtRest /\ ScanAtRest

FilterOnly == UNCHANGED <<retryVars, resetVars, dispVars, switchVars, progVars,
                          logVars, stopVars, renderVars, scanVars>>

\* newConfig (32-50)
NewConfig ==
    /\ cfgPc = "new"
    /\ includeSet' = includeDirs
    /\ skipSet' = {dir \in skipDirs : dir \notin includeDirs}
    /\ cfgPc' = "ready"
    /\ UNCHANGED <<skipDirs, includeDirs, relPath, selected>>
    /\ FilterOnly

\* filterReposForExecution (94-106): one iteration of the loop.
FilterRepo ==
    /\ cfgPc = "ready"
    /\ \E path \in RelPaths :
         /\ relPath' = path
         /\ selected' = shouldExecuteInRepo(path)
    /\ UNCHANGED <<cfgPc, skipDirs, includeDirs, skipSet, includeSet>>
    /\ FilterOnly

FilterNext == NewConfig \/ FilterRepo

SpecFilter == FilterInit /\ [][FilterNext]_vars

(***************************************************************************)
(* THE LOG MANAGER AND THE LOCKS OF A RUN                                  *)
(* (internal/core/logmanager.go, src/unnamed/part_010, part_014:364-392)   *)
(*                                                                         *)
(* Each worker is followed through one iteration of its loop: the first    *)
(* UpdateStatus, CreateLogFile, the operation, the terminal UpdateStatus.  *)
(* Beside the workers run the spinner and the input listener; the main     *)
(* goroutine reads the logs when the workers are through.  Taking a lock   *)
(* and the section it guards are separate steps.                           *)
(***************************************************************************)
TempDir == "gb-logs-*/"

\* The relative paths of the repositories the workers hold.
LogRelPaths == { <<"a", "/", "b">>, <<"a", "_", "b">>, <<"a", "b">> }

\* Mutant of ReplaceAll: nothing is replaced.
ReplaceNone(str, old, new) == str

\* strings.ReplaceAll for a one-character `old`.
ReplaceAll(str, old, new) ==
    [i \in DOMAIN str |-> IF str[i] = old THEN new ELSE str[i]]

\* CreateLogFile 34-37: the path of the log file.
LogPathOf(rel) ==
    <<TempDir>> \o ReplaceAll(ReplaceAll(rel, "/", "_"), "\\", "_") \o <<".log">>

Worker(w) == <<"worker", w>>
LogWorkers == DOMAIN lpc

LogInit ==
    /\ workers \in 1..MaxWorkers
    /\ nRepos = workers
    /\ lrel \in {f \in [1..workers -> LogRelPaths] :
                    \A v, w \in 1..workers : v # w => f[v] # f[w]}
    /\ lpc = [w \in 1..workers |-> "update"]
    /\ lfile = [w \in 1..workers |-> <<>>]
    /\ lmMu = Free /\ writeMu = Free /\ mu = Free
    /\ logFiles = {} /\ created = <<>>
    /\ supportsANSI \in BOOLEAN
    /\ spinnerPc = (IF supportsANSI THEN "tick" ELSE "off")
    /\ inputPc \in (IF supportsANSI THEN {"key", "off"} ELSE {"off"})
    /\ spinnerIndex = 0 /\ currentPage = 0 /\ maxDisplayedRepos = 1
    /\ paginationMode = (inputPc = "key") /\ trail = <<>>
    /\ mpc = "aggregate"
    /\ mode = "soft" /\ stdinTTY = TRUE /\ answer = <<>>
    /\ preflightRan = FALSE /\ prompted = FALSE /\ logDir = TRUE
    /\ repoCh = <<>> /\ repoClosed = FALSE /\ fed = 0
    /\ feederPc = "idle" /\ closerPc = "idle"
    /\ resCh = <<>> /\ resClosed = FALSE /\ wpc = <<>> /\ wrepo = <<>>
    /\ wres = <<>> /\ wg = 0 /\ statuses = <<>> /\ handled = <<>>
    /\ results = <<>> /\ succeeded = 0 /\ failed = 0 /\ skipped = 0
    /\ skipReasons = NoSkipReasons /\ summary = NoSummary /\ exitCode = -1
    /\ RetryAtRest /\ ResetAtRest /\ SwitchAtRest /\ FilterAtRest
    /\ StopAtRest /\ RenderAtRest /\ ScanAtRest

logRest == <<nRepos, workers, gateVars, poolVars, aggVars, exitCode,
             currentPage, maxDisplayedRepos, supportsANSI, paginationMode,
             trail, retryVars, resetVars, switchVars, filterVars, stopVars,
             renderVars, scanVars>>

\* UpdateStatus 84: ps.mu.Lock() (the calls at part_014:369 and 382-389).
LogUpdateLock(w) ==
    /\ lpc[w] \in {"update", "finish"}
    /\ mu = Free
    /\ mu' = Worker(w)
    /\ lpc' = [lpc EXCEPT ![w] = IF @ = "update" THEN "updLocked" ELSE "finLocked"]
    /\ UNCHANGED <<lrel, lfile, lmMu, writeMu, logFiles, created, spinnerPc,
                   inputPc, spinnerIndex, mpc, logRest>>

\* renderANSI 181 / renderSimple 188, reached through renderLocked at 101:
\* ps.writeMu.Lock().
LogRenderLock(w) ==
    /\ lpc[w] \in {"updLocked", "finLocked"}
    /\ mu = Worker(w)
    /\ writeMu = Free
    /\ writeMu' = Worker(w)
    /\ lpc' = [lpc EXCEPT ![w] = IF @ = "updLocked" THEN "updWriting"
                                                    ELSE "finWriting"]
    /\ UNCHANGED <<lrel, lfile, lmMu, mu, logFiles, created, spinnerPc,
                   inputPc, spinnerIndex, mpc, logRest>>

\* 182-183 / 189-191 and UpdateStatus 102: the frame is written,
\* ps.writeMu.Unlock(), ps.mu.Unlock().
LogRenderUnlock(w) ==
    /\ lpc[w] \in {"updWriting", "finWriting"}
    /\ writeMu = Worker(w) /\ mu = Worker(w)
    /\ writeMu' = Free /\ mu' = Free
    /\ lpc' = [lpc EXCEPT ![w] = IF @ = "updWriting" THEN "createLog" ELSE "done"]
    /\ UNCHANGED <<lrel, lfile, lmMu, logFiles, created, spinnerPc, inputPc,
                   spinnerIndex, mpc, logRest>>

\* Mutant of CreateLogLock: the log file is created inside UpdateStatus,
\* before ps.mu is released.
CreateLogLockInsideUpdate(w) ==
    /\ lpc[w] = "updWriting"
    /\ lmMu = Free
    /\ lmMu' = Worker(w)
    /\ writeMu' = Free
    /\ lpc' = [lpc EXCEPT ![w] = "logLocked"]
    /\ UNCHANGED <<lrel, lfile, mu, logFiles, created, spinnerPc, inputPc,
                   spinnerIndex, mpc, logRest>>

\* CreateLogFile 30: lm.mu.Lock().
CreateLogLock(w) ==
    /\ lpc[w] = "createLog"
    /\ lmMu = Free
    /\ lmMu' = Worker(w)
    /\ lpc' = [lpc EXCEPT ![w] = "logLocked"]
    /\ UNCHANGED <<lrel, lfile, mu, writeMu, logFiles, created, spinnerPc,
                   inputPc, spinnerIndex, mpc, logRest>>

\* CreateLogFile 34-46: os.Create (which truncates an existing file), the
\* map entry, the deferred lm.mu.Unlock(); part_014:372-374 on an error.
CreateLogFile(w) ==
    /\ lpc[w] = "logLocked"
    /\ lmMu = Worker(w)
    /\ \E ok \in BOOLEAN :
         IF ok
         THEN /\ created' = Append(created, LogPathOf(lrel[w]))
              /\ lfile' = [lfile EXCEPT ![w] = LogPathOf(lrel[w])]
              /\ logFiles' = {e \in logFiles : e[1] # lrel[w]}
                                 \cup {<<lrel[w], LogPathOf(lrel[w])>>}
         ELSE UNCHANGED <<created, lfile, logFiles>>
    /\ lmMu' = Free
    /\ lpc' = [lpc EXCEPT ![w] = "process"]
    /\ UNCHANGED <<lrel, mu, writeMu, spinnerPc, inputPc, spinnerIndex, mpc,
                   logRest>>

\* part_014:376-380: the operation writes to the log file; logFile.Close().
LogProcess(w) ==
    /\ lpc[w] = "process"
    /\ lfile' = [lfile EXCEPT ![w] = <<>>]
    /\ lpc' = [lpc EXCEPT ![w] = "finish"]
    /\ UNCHANGED <<lrel, lmMu, writeMu, mu, logFiles, created, spinnerPc,
                   inputPc, spinnerIndex, mpc, logRest>>

\* runSpinner 299-300: a tick; ps.mu.Lock().  Ticks are counted to MaxTicks.
LogSpinnerLock ==
    /\ spinnerPc = "tick" /\ spinnerIndex < MaxTicks
    /\ mu = Free
    /\ mu' = <<"spinner", 0>>
    /\ spinnerPc' = "locked"
    /\ UNCHANGED <<logVars, inputPc, spinnerIndex, mpc, logRest>>

\* runSpinner 303-304 and renderANSI 181: ps.writeMu.Lock().
LogSpinnerRenderLock ==
    /\ spinnerPc = "locked" /\ mu = <<"spinner", 0>>
    /\ writeMu = Free
    /\ writeMu' = <<"spinner", 0>>
    /\ spinnerPc' = "writing"
    /\ UNCHANGED <<lpc, lrel, lfile, lmMu, logFiles, created, mu, inputPc,
                   spinnerIndex, mpc, logRest>>

\* renderANSI 182-183 and runSpinner 306: both locks released.
LogSpinnerUnlock ==
    /\ spinnerPc = "writing"
    /\ writeMu = <<"spinner", 0>> /\ mu = <<"spinner", 0>>
    /\ writeMu' = Free /\ mu' = Free
    /\ spinnerIndex' = (spinnerIndex + 1) % NumSpinnerFrames
    /\ spinnerPc' = "tick"
    /\ UNCHANGED <<lpc, lrel, lfile, lmMu, logFiles, created, inputPc, mpc,
                   logRest>>

\* handleInput 332-337: a key; ps.mu.Lock().
LogInputLock ==
    /\ inputPc = "key"
    /\ mu = Free
    /\ mu' = <<"input", 0>>
    /\ inputPc' = "locked"
    /\ UNCHANGED <<logVars, spinnerPc, spinnerIndex, mpc, logRest>>

\* handleInput 352-353 and renderANSI 181: the page changed;
\* ps.writeMu.Lock().
LogInputRenderLock ==
    /\ inputPc = "locked" /\ mu = <<"input", 0>>
    /\ writeMu = Free
    /\ writeMu' = <<"input", 0>>
    /\ inputPc' = "writing"
    /\ UNCHANGED <<lpc, lrel, lfile, lmMu, logFiles, created, mu, spinnerPc,
                   spinnerIndex, mpc, logRest>>

\* handleInput 355: ps.mu.Unlock(), after a frame (and ps.writeMu.Unlock())
\* or, the page unchanged, without one.
LogInputUnlock ==
    /\ inputPc \in {"locked", "writing"}
    /\ mu = <<"input", 0>>
    /\ inputPc = "writing" => writeMu = <<"input", 0>>
    /\ writeMu' = IF inputPc = "writing" THEN Free ELSE writeMu
    /\ mu' = Free
    /\ inputPc' = "key"
    /\ UNCHANGED <<lpc, lrel, lfile, lmMu, logFiles, created, spinnerPc,
                   spinnerIndex, mpc, logRest>>

\* ReadLog 68 -> GetLogPath 49 (prompt.go:70), after the aggregation loop:
\* lm.mu.Lock().
ReadLogLock ==
    /\ mpc = "aggregate"
    /\ \A w \in LogWorkers : lpc[w] = "done"
    /\ lmMu = Free
    /\ lmMu' = <<"main", 0>>
    /\ mpc' = "readLog"
    /\ UNCHANGED <<lpc, lrel, lfile, writeMu, mu, logFiles, created, spinnerPc,
                   inputPc, spinnerIndex, logRest>>

\* GetLogPath 50-52: the map is read; the deferred lm.mu.Unlock().
ReadLogUnlock ==
    /\ mpc = "readLog" /\ lmMu = <<"main", 0>>
    /\ lmMu' = Free
    /\ mpc' = "summary"
    /\ UNCHANGED <<lpc, lrel, lfile, writeMu, mu, logFiles, created, spinnerPc,
                   inputPc, spinnerIndex, logRest>>

LogNext ==
    \/ \E w \in LogWorkers : LogUpdateLock(w)
    \/ \E w \in LogWorkers : LogRenderLock(w)
    \/ \E w \in LogWorkers : LogRenderUnlock(w)
    \/ \E w \in LogWorkers : CreateLogLock(w)
    \/ \E w \in LogWorkers : CreateLogFile(w)
    \/ \E w \in LogWorkers : LogProcess(w)
    \/ LogSpinnerLock \/ LogSpinnerRenderLock \/ LogSpinnerUnlock
    \/ LogInputLock \/ LogInputRenderLock \/ LogInputUnlock
    \/ ReadLogLock \/ ReadLogUnlock

SpecLog == LogInit /\ [][LogNext]_vars

(***************************************************************************)
(* THE END OF AN OPERATION                                                 *)
(* (part_014:412-456, switch.go:340-415, branch.go:257-362 and 398-510,    *)
(*  part_010:291-324)                                                      *)
(*                                                                         *)
(* The four operations that show the progress display end alike, except    *)
(* for the place of StopInput: syncBranch calls it after the aggregation   *)
(* loop, the other three defer it to the return of the function, and a     *)
(* deferred call does not run on os.Exit.  The spinner goroutine ends by   *)
(* the closed ps.stopSpinner or with the process.                          *)
(***************************************************************************)
OpTypes == {"sync", "switch", "git", "shell"}

StopInit ==
    /\ opType \in OpTypes
    /\ stopSpinner = FALSE
    /\ mode \in {"soft"}
    /\ nRepos \in 1..MaxRepos
    /\ workers = 1
    /\ maxDisplayedRepos = 1
    /\ supportsANSI \in BOOLEAN
    /\ paginationMode \in BOOLEAN
    /\ spinnerPc = (IF supportsANSI THEN "tick" ELSE "off")
    /\ inputPc = (IF supportsANSI /\ paginationMode THEN "key" ELSE "off")
    /\ mu = Free /\ spinnerIndex = 0 /\ currentPage = 0
    /\ statuses = [r \in Repos |-> "processing"]
    /\ trail = [r \in Repos |-> <<>>]
    /\ mpc = "aggregate" /\ stdinTTY = TRUE /\ answer = <<>>
    /\ preflightRan = FALSE /\ prompted = FALSE /\ logDir = TRUE
    /\ repoCh = <<>> /\ repoClosed = TRUE /\ fed = nRepos
    /\ feederPc = "done" /\ closerPc = "wait"
    /\ resCh = <<>> /\ resClosed = FALSE /\ wpc = <<>> /\ wrepo = <<>>
    /\ wres = <<>> /\ wg = 0 /\ handled = <<>>
    /\ results = <<>> /\ succeeded = 0 /\ failed = 0 /\ skipped = 0
    /\ skipReasons = NoSkipReasons /\ summary = NoSummary /\ exitCode = -1
    /\ RetryAtRest /\ ResetAtRest /\ SwitchAtRest /\ FilterAtRest /\ LogAtRest
    /\ RenderAtRest /\ ScanAtRest

stopRest == <<nRepos, workers, gateVars, repoCh, repoClosed, feederPc, fed,
              closerPc, resCh, resClosed, wpc, wrepo, wres, wg, handled,
              results, succeeded, skipped, skipReasons, summary, trail,
              spinnerIndex, currentPage, maxDisplayedRepos, supportsANSI,
              paginationMode, retryVars, resetVars, switchVars, filterVars,
              logVars, renderVars, scanVars, opType>>

\* The terminal UpdateStatus of a worker (part_014:382-389, switch.go:366-370,
\* branch.go:309-317 and 457-465), ps.mu taken and released.
StopWorkerFinish(r) ==
    /\ mpc = "aggregate"
    /\ statuses[r] = "processing"
    /\ mu = Free
    /\ \E st \in {"completed", "failed"} :
         statuses' = [statuses EXCEPT ![r] = st]
    /\ UNCHANGED <<mpc, failed, exitCode, mu, spinnerPc, inputPc, stopSpinner,
                   stopRest>>

\* The aggregation loop ends (part_014:412-425, switch.go:391-400,
\* branch.go:337-346 and 485-494) with the failures counted; RenderFinal is
\* empty.
StopAggregateEnd ==
    /\ mpc = "aggregate"
    /\ TerminalCount = nRepos
    /\ failed' = Cardinality({r \in Repos : statuses[r] = "failed"})
    /\ mpc' = IF opType = "sync" THEN "stopInput" ELSE "summary"
    /\ UNCHANGED <<statuses, exitCode, mu, spinnerPc, inputPc, stopSpinner,
                   stopRest>>

\* Mutant of StopInput: the test of ps.paginationMode comes first.
StopInputPaginationFirst ==
    /\ mpc \in {"stopInput", "deferred"}
    /\ stopSpinner' = (stopSpinner \/ (supportsANSI /\ paginationMode))
    /\ inputPc' = IF paginationMode THEN "off" ELSE inputPc
    /\ mpc' = IF mpc = "stopInput" THEN "summary" ELSE "returned"
    /\ UNCHANGED <<statuses, failed, exitCode, mu, spinnerPc, stopRest>>

\* StopInput (311-324), called at part_014:426 and, deferred, at the return
\* of switchBranches and of the two executors: close(ps.stopSpinner) on an
\* ANSI terminal; close(ps.stopInput) in pagination mode.
StopInput ==
    /\ mpc \in {"stopInput", "deferred"}
    /\ stopSpinner' = (stopSpinner \/ supportsANSI)
    /\ inputPc' = IF paginationMode THEN "off" ELSE inputPc
    /\ mpc' = IF mpc = "stopInput" THEN "summary" ELSE "returned"
    /\ UNCHANGED <<statuses, failed, exitCode, mu, spinnerPc, stopRest>>

\* The summary is printed and PromptViewLogs returns (part_014:428-451,
\* switch.go:402-410, branch.go:348-357 and 496-505).
StopSummary ==
    /\ mpc = "summary"
    /\ mpc' = "exitCheck"
    /\ UNCHANGED <<statuses, failed, exitCode, mu, spinnerPc, inputPc,
                   stopSpinner, stopRest>>

\* The last statement (part_014:453-455, switch.go:412-414, branch.go:359-361
\* and 507-509): os.Exit(1) after a failure, which ends every goroutine and
\* runs no deferred call; otherwise the function returns.
StopExitCheck ==
    /\ mpc = "exitCheck"
    /\ IF failed > 0
       THEN /\ exitCode' = 1
            /\ mpc' = "exited"
            /\ spinnerPc' = IF spinnerPc \in {"tick", "locked"} THEN "gone"
                                                                ELSE spinnerPc
            /\ inputPc' = IF inputPc = "off" THEN "off" ELSE "gone"
       ELSE /\ mpc' = IF opType = "sync" THEN "returned" ELSE "deferred"
            /\ UNCHANGED <<exitCode, spinnerPc, inputPc>>
    /\ UNCHANGED <<statuses, failed, mu, stopSpinner, stopRest>>

\* runSpinner 297-298: the closed ps.stopSpinner is received; return.
SpinnerStop ==
    /\ spinnerPc = "tick"
    /\ stopSpinner
    /\ spinnerPc' = "stopped"
    /\ UNCHANGED <<statuses, failed, exitCode, mu, mpc, inputPc, stopSpinner,
                   stopRest>>

StopNext ==
    \/ \E r \in Repos : StopWorkerFinish(r)
    \/ StopAggregateEnd
    \/ StopInput
    \/ StopSummary
    \/ StopExitCheck
    \/ SpinnerLock
    \/ SpinnerTick
    \/ SpinnerStop

\* The goroutines are scheduled and the prompt is answered; a select with
\* several ready cases chooses among them at random, so the closed channel
\* is not passed over for ever.
SpecStop ==
    /\ StopInit /\ [][StopNext]_vars
    /\ WF_vars(\E r \in Repos : StopWorkerFinish(r))
    /\ WF_vars(StopAggregateEnd) /\ WF_vars(StopInput) /\ WF_vars(StopSummary)
    /\ WF_vars(StopExitCheck) /\ WF_vars(SpinnerTick) /\ SF_vars(SpinnerStop)

(***************************************************************************)
(* THE FRAMES OF THE PROGRESS DISPLAY  (src/unnamed/part_010:47-192,       *)
(* 259-358)                                                                *)
(*                                                                         *)
(* Every method that draws holds ps.mu from its first to its last          *)
(* statement, so a call is one step here.  The page size is whatever the   *)
(* -ps flag gave (part_014:159-160, 224): no code narrows it.  The one     *)
(* write made without the lock, StartInput's ps.paginationMode = false,    *)
(* may fall inside a frame the spinner is drawing: then the frame has read *)
(* the field with both values.                                             *)
(***************************************************************************)
PageSizes == (0 - MaxPageSize)..MaxPageSize

\* min (252-257)
min(a, b) == IF a < b THEN a ELSE b

\* countStatuses (197-211) on the statuses `stats`: completed + failed.
TerminalIn(stats) ==
    Cardinality({r \in DOMAIN stats : stats[r] \in {"completed", "failed"}})

\* Mutant of lineCount: the page or overflow line is not counted.
lineCountNoExtra(startIdx, endIdx, pmCount) == 1 + (endIdx - startIdx) + 1

\* renderANSI 170-177: lineCount.
lineCount(startIdx, endIdx, pmCount) ==
    1 + (endIdx - startIdx)
      + (IF pmCount \/ nRepos > maxDisplayedRepos THEN 1 ELSE 0) + 1

\* ps.paginationMode as one call of renderANSI reads it, in order: at 146
\* (the rows), at 161 (the page line), at 260 (totalPages, called at 162) and
\* at 172 (the count).  Under ps.mu the four reads agree.
OneRead == [i \in 1..4 |-> paginationMode]

\* The reads of a frame in which the write of line 281 falls.
TornReads == { <<TRUE, TRUE, TRUE, FALSE>>, <<TRUE, TRUE, FALSE, FALSE>>,
               <<TRUE, FALSE, FALSE, FALSE>> }

\* renderANSI (128-184) as what it writes and stores, for the statuses
\* `stats`, the page `page`, the spinner index `idx` and the reads `pm` of
\* ps.paginationMode.  head is the spinner frame shown, -1 for the Done
\* header; pages is the page count printed, 0 without a page line.
FrameANSI(stats, page, idx, pm) ==
    LET startIdx == IF pm[1] THEN page * maxDisplayedRepos ELSE 0
        endIdx   == IF pm[1] THEN min(startIdx + maxDisplayedRepos, nRepos)
                             ELSE min(maxDisplayedRepos, nRepos)
        rows     == IF endIdx > startIdx THEN endIdx - startIdx ELSE 0
        extra    == IF pm[2] THEN "page"
                    ELSE IF nRepos > maxDisplayedRepos THEN "more" ELSE "none"
    IN [kind  |-> "ansi",
        up    |-> IF linesDrawn > 0 THEN linesDrawn ELSE 0,
        head  |-> IF TerminalIn(stats) < nRepos THEN idx ELSE -1,
        from  |-> startIdx,
        to    |-> endIdx,
        shown |-> [i \in 1..rows |-> stats[startIdx + i]],
        extra |-> extra,
        page  |-> page,
        pages |-> IF ~pm[2] THEN 0
                  ELSE IF ~pm[3] THEN 1
                  ELSE GoDiv(nRepos + maxDisplayedRepos - 1, maxDisplayedRepos),
        lines |-> 1 + rows + (IF extra = "none" THEN 0 ELSE 1) + 1,
        count |-> lineCount(startIdx, endIdx, pm[4])]

\* renderSimple (186-192): one line with the counts.
FrameSimple(stats) ==
    [kind |-> "simple", done |-> TerminalIn(stats), lines |-> 1]

\* renderLocked (120-126) called by the task `by`: on an ANSI terminal the
\* frame is composed (a paginated one asks totalPages at 162), ps.linesDrawn
\* is stored and the frame is written; otherwise the one line is written.
Render(by, stats, page, idx, pm) ==
    IF supportsANSI
    THEN IF pm[2] /\ pm[3] /\ maxDisplayedRepos = 0
         THEN /\ rpanic' = TRUE
              /\ wrote' = "none"
              /\ UNCHANGED <<linesDrawn, frame, prevLines>>
         ELSE LET f == FrameANSI(stats, page, idx, pm) IN
              /\ frame' = f
              /\ linesDrawn' = f.count
              /\ prevLines' = (IF frame = NoFrame THEN 0 ELSE frame.lines)
              /\ wrote' = by
              /\ UNCHANGED rpanic
    ELSE /\ frame' = FrameSimple(stats)
         /\ prevLines' = (IF frame = NoFrame THEN 0 ELSE frame.lines)
         /\ wrote' = by
         /\ UNCHANGED <<linesDrawn, rpanic>>

\* A step that draws nothing.
NoRender == wrote' = "none" /\ UNCHANGED <<linesDrawn, frame, prevLines, rpanic>>

\* NewProgressState (47-68), called with cfg.PageSize.
RenderInit ==
    /\ mode \in {"soft"}
    /\ nRepos \in 1..MaxRepos
    /\ workers = 1
    /\ maxDisplayedRepos \in PageSizes
    /\ paginationMode = (nRepos > maxDisplayedRepos)
    /\ supportsANSI \in BOOLEAN
    /\ stdinTTY \in BOOLEAN
    /\ spinnerPc = "off" /\ inputPc = "off"
    /\ mu = Free /\ spinnerIndex = 0 /\ currentPage = 0
    /\ statuses = [r \in Repos |-> "waiting"]
    /\ trail = [r \in Repos |-> <<>>]
    /\ linesDrawn = 0 /\ frame = NoFrame /\ prevLines = 0 /\ wrote = "none"
    /\ rpanic = FALSE
    /\ mpc = "render" /\ answer = <<>>
    /\ preflightRan = FALSE /\ prompted = FALSE /\ logDir = TRUE
    /\ repoCh = <<>> /\ repoClosed = FALSE /\ fed = 0
    /\ feederPc = "idle" /\ closerPc = "idle"
    /\ resCh = <<>> /\ resClosed = FALSE /\ wpc = <<>> /\ wrepo = <<>>
    /\ wres = <<>> /\ wg = 0 /\ handled = <<>>
    /\ results = <<>> /\ succeeded = 0 /\ failed = 0 /\ skipped = 0
    /\ skipReasons = NoSkipReasons /\ summary = NoSummary /\ exitCode = -1
    /\ RetryAtRest /\ ResetAtRest /\ SwitchAtRest
    /\ FilterAtRest /\ LogAtRest /\ StopAtRest /\ ScanAtRest

renderRest == <<nRepos, workers, gateVars, repoCh, repoClosed, feederPc, fed,
                closerPc, resCh, resClosed, wpc, wrepo, wres, wg, handled,
                aggVars, exitCode, mu, trail, maxDisplayedRepos, supportsANSI,
                retryVars, resetVars, switchVars, filterVars, logVars,
                stopVars, scanVars>>

\* render (114-118), called before StartInput (part_014:357, switch.go:339,
\* branch.go:256 and 397).
RenderFirst ==
    /\ mpc = "render" /\ ~rpanic
    /\ Render("main", statuses, currentPage, spinnerIndex, OneRead)
    /\ mpc' = "startInput"
    /\ UNCHANGED <<statuses, paginationMode, currentPage, spinnerIndex,
                   spinnerPc, inputPc, renderRest>>

\* StartInput 267-278: the spinner is started on an ANSI terminal; the
\* keyboard is opened only in pagination mode with standard input a terminal.
RenderStartInput ==
    /\ mpc = "startInput" /\ ~rpanic
    /\ spinnerPc' = IF supportsANSI THEN "tick" ELSE spinnerPc
    /\ mpc' = IF paginationMode /\ supportsANSI /\ stdinTTY THEN "keyboard"
                                                            ELSE "run"
    /\ NoRender
    /\ UNCHANGED <<statuses, paginationMode, currentPage, spinnerIndex,
                   inputPc, renderRest>>

\* StartInput 280-288: keyboard.Open(); on an error ps.paginationMode is set
\* to false, otherwise the listener is started.
RenderKeyboardOpen ==
    /\ mpc = "keyboard" /\ ~rpanic
    /\ \E err \in BOOLEAN :
         IF err THEN paginationMode' = FALSE /\ UNCHANGED inputPc
                ELSE inputPc' = "key" /\ UNCHANGED paginationMode
    /\ mpc' = "run"
    /\ NoRender
    /\ UNCHANGED <<statuses, currentPage, spinnerIndex, spinnerPc, renderRest>>

\* UpdateStatus (83-103), called by a worker with statusProcessing
\* (part_014:369) and with the terminal status (part_014:382-389).
RenderUpdateStatus(r) ==
    /\ mpc = "run" /\ ~rpanic
    /\ \E st \in {"processing", "completed", "failed"} :
         /\ \/ statuses[r] = "waiting" /\ st = "processing"
            \/ statuses[r] = "processing" /\ st # "processing"
         /\ statuses' = [statuses EXCEPT ![r] = st]
    /\ Render("worker", statuses', currentPage, spinnerIndex, OneRead)
    /\ UNCHANGED <<mpc, paginationMode, currentPage, spinnerIndex, spinnerPc,
                   inputPc, renderRest>>

\* Mutant of RenderSpinnerTick: the tick advances and draws whatever the
\* statuses are.
RenderSpinnerTickAlways ==
    /\ spinnerPc = "tick" /\ ~rpanic
    /\ spinnerIndex' = (spinnerIndex + 1) % NumSpinnerFrames
    /\ Render("spinner", statuses, currentPage, spinnerIndex', OneRead)
    /\ UNCHANGED <<mpc, statuses, paginationMode, currentPage, spinnerPc,
                   inputPc, renderRest>>

\* runSpinner 299-306: a tick.
RenderSpinnerTick ==
    /\ spinnerPc = "tick" /\ ~rpanic
    /\ IF TerminalCount < nRepos
       THEN /\ spinnerIndex' = (spinnerIndex + 1) % NumSpinnerFrames
            /\ Render("spinner", statuses, currentPage, spinnerIndex', OneRead)
       ELSE /\ UNCHANGED spinnerIndex
            /\ NoRender
    /\ UNCHANGED <<mpc, statuses, paginationMode, currentPage, spinnerPc,
                   inputPc, renderRest>>

\* runSpinner 299-306 while StartInput executes line 281: the frame reads
\* ps.paginationMode before and after the unlocked write.
RenderSpinnerTickTorn ==
    /\ mpc = "keyboard" /\ spinnerPc = "tick" /\ ~rpanic
    /\ TerminalCount < nRepos
    /\ spinnerIndex' = (spinnerIndex + 1) % NumSpinnerFrames
    /\ \E pm \in TornReads :
         Render("spinner", statuses, currentPage, spinnerIndex', pm)
    /\ paginationMode' = FALSE
    /\ mpc' = "run"
    /\ UNCHANGED <<statuses, currentPage, spinnerPc, inputPc, renderRest>>

\* Mutant of RenderKey: the page moves without the tests of its bounds.
RenderKeyUnbounded(key) ==
    /\ inputPc = "key" /\ ~rpanic
    /\ currentPage' = CASE key = "down" -> currentPage + 1
                        [] key = "up" -> currentPage - 1
                        [] OTHER -> currentPage
    /\ IF currentPage' # currentPage /\ currentPage' \in 0..(nRepos - 1)
       THEN Render("input", statuses, currentPage', spinnerIndex, OneRead)
       ELSE NoRender
    /\ UNCHANGED <<mpc, statuses, paginationMode, spinnerIndex, spinnerPc,
                   inputPc, renderRest>>

\* handleInput 332-356: a key; the page moves within its bounds and, if it
\* has moved, the frame is drawn again.
RenderKey(key) ==
    /\ inputPc = "key" /\ ~rpanic
    /\ IF totalPagesPanics /\ key = "down"
       THEN /\ rpanic' = TRUE /\ wrote' = "none"
            /\ UNCHANGED <<currentPage, linesDrawn, frame, prevLines>>
       ELSE /\ currentPage' =
                 IF key = "down" /\ currentPage < totalPages - 1
                 THEN currentPage + 1
                 ELSE IF key = "up" /\ currentPage > 0 THEN currentPage - 1
                 ELSE currentPage
            /\ IF currentPage' # currentPage
               THEN Render("input", statuses, currentPage', spinnerIndex, OneRead)
               ELSE NoRender
    /\ UNCHANGED <<mpc, statuses, paginationMode, spinnerIndex, spinnerPc,
                   inputPc, renderRest>>

RenderNext ==
    \/ RenderFirst
    \/ RenderStartInput
    \/ RenderKeyboardOpen
    \/ \E r \in Repos : RenderUpdateStatus(r)
    \/ RenderSpinnerTick
    \/ RenderSpinnerTickTorn
    \/ \E key \in Keys : RenderKey(key)

SpecRender == RenderInit /\ [][RenderNext]_vars

\* ---- The frames and the results of a run: the display as above, with the
\* workers' `resCh <- res` and the aggregation loop.

\* The repositories whose result has been sent.
SentRepos ==
    {resCh[i].repo : i \in DOMAIN resCh}
        \cup {results[i].repo : i \in DOMAIN results}

RenderRunInit == RenderInit

\* Mutant of RenderSend: the result is sent before the terminal status is
\* set.
RenderSendEarly(r) ==
    /\ mpc = "run" /\ ~rpanic
    /\ statuses[r] = "processing"
    /\ r \notin SentRepos
    /\ resCh' = Append(resCh, [repo |-> r])
    /\ NoRender
    /\ UNCHANGED <<nRepos, workers, gateVars, repoCh, repoClosed, feederPc, fed,
                   closerPc, resClosed, wpc, wrepo, wres, wg, statuses, handled,
                   aggVars, exitCode, mpc, progVars, retryVars, resetVars,
                   switchVars, filterVars, logVars, stopVars, scanVars>>

\* `resCh <- res` (part_014:391, switch.go:372, branch.go:319 and 467), the
\* statement after the worker's terminal UpdateStatus.
RenderSend(r) ==
    /\ mpc = "run" /\ ~rpanic
    /\ statuses[r] \in {"completed", "failed"}
    /\ r \notin SentRepos
    /\ resCh' = Append(resCh, [repo |-> r])
    /\ NoRender
    /\ UNCHANGED <<nRepos, workers, gateVars, repoCh, repoClosed, feederPc, fed,
                   closerPc, resClosed, wpc, wrepo, wres, wg, statuses, handled,
                   aggVars, exitCode, mpc, progVars, retryVars, resetVars,
                   switchVars, filterVars, logVars, stopVars, scanVars>>

\* `for res := range resCh` (part_014:412, switch.go:391, branch.go:337 and
\* 485) takes a result.
RenderAggRecv ==
    /\ mpc = "run" /\ ~rpanic
    /\ resCh # <<>>
    /\ results' = Append(results, Head(resCh))
    /\ resCh' = Tail(resCh)
    /\ NoRender
    /\ UNCHANGED <<nRepos, workers, gateVars, repoCh, repoClosed, feederPc, fed,
                   closerPc, resClosed, wpc, wrepo, wres, wg, statuses, handled,
                   succeeded, failed, skipped, skipReasons, summary, exitCode,
                   mpc, progVars, retryVars, resetVars, switchVars, filterVars,
                   logVars, stopVars, scanVars>>

\* The loop ends: with a worker started resCh is closed, after wg.Wait(),
\* when every repository's result has been sent (part_014:402-405).
RenderAggEnd ==
    /\ mpc = "run" /\ ~rpanic
    /\ SentRepos = Repos /\ resCh = <<>>
    /\ resClosed' = TRUE
    /\ mpc' = "summary"
    /\ NoRender
    /\ UNCHANGED <<nRepos, workers, gateVars, repoCh, repoClosed, feederPc, fed,
                   closerPc, resCh, wpc, wrepo, wres, wg, statuses, handled,
                   aggVars, exitCode, progVars, retryVars, resetVars,
                   switchVars, filterVars, logVars, stopVars, scanVars>>

RenderRunNext ==
    \/ RenderFirst
    \/ RenderStartInput
    \/ RenderKeyboardOpen
    \/ \E r \in Repos : RenderUpdateStatus(r)
    \/ RenderSpinnerTick
    \/ RenderSpinnerTickTorn
    \/ \E key \in Keys : RenderKey(key)
    \/ \E r \in Repos : RenderSend(r)
    \/ RenderAggRecv
    \/ RenderAggEnd

SpecRenderRun == RenderRunInit /\ [][RenderRunNext]_vars

(***************************************************************************)
(* THE PREFLIGHT SCAN  (src/unnamed/part_014:330-343, 471-543)             *)
(*                                                                         *)
(* syncBranch up to the start of its pool, with preflightScan step by      *)
(* step: its workers, its feeder, its closer and the receiving loop.       *)
(***************************************************************************)
\* What `git status --porcelain` can answer, as getDirtyStatus tells the
\* answers apart: an error, no output, lines with a staged change only, with
\* an unstaged or untracked one only, with both, or only lines shorter than
\* two characters.
\* The scan is run on four of them.
ScanKinds == {"err", "clean", "staged", "short"}

\* getDirtyStatus (509-543)
getDirtyStatus(kind) ==
    CASE kind = "err"      -> ""
      [] kind = "clean"    -> ""
      [] kind = "both"     -> "staged + unstaged changes"
      [] kind = "staged"   -> "staged changes"
      [] kind = "unstaged" -> "unstaged changes"
      [] kind = "short"    -> "changes"

\* The orders the RelPaths of the repositories can stand in: that of the
\* list, and the reverse.
RelRanks == { [r \in Repos |-> r], [r \in Repos |-> nRepos + 1 - r] }

\* Mutant of SortSlice: the slice is returned as it was filled.
SortSliceLeftAlone(infos) == infos

\* 504: sort.Slice(dirty, ...) by RelPath.
RECURSIVE SortSlice(_)
SortSlice(infos) ==
    IF infos = <<>> THEN <<>>
    ELSE LET rest == SortSlice(Tail(infos))
             x    == Head(infos)
             k    == Cardinality({i \in DOMAIN rest :
                                     relRank[rest[i].repo] < relRank[x.repo]})
         IN SubSeq(rest, 1, k) \o <<x>> \o SubSeq(rest, k + 1, Len(rest))

ScanInit ==
    /\ mode \in Modes
    /\ nRepos \in 1..MaxRepos
    /\ workers \in 0..MaxWorkers
    /\ stdinTTY \in BOOLEAN
    /\ porcelain \in [Repos -> ScanKinds]
    /\ relRank \in RelRanks
    /\ scanCh = <<>> /\ scanClosed = FALSE /\ scanFed = 0
    /\ scanPc = <<>> /\ scanRepo = <<>> /\ scanWg = 0
    /\ scanRes = <<>> /\ scanResClosed = FALSE /\ dirty = <<>>
    /\ scanArrived = <<>> /\ scanCmds = <<>>
    /\ mpc = "discover" /\ answer = <<>>
    /\ preflightRan = FALSE /\ prompted = FALSE /\ logDir = FALSE
    /\ repoCh = <<>> /\ repoClosed = FALSE /\ feederPc = "idle" /\ fed = 0
    /\ closerPc = "idle" /\ resCh = <<>> /\ resClosed = FALSE
    /\ wpc = <<>> /\ wrepo = <<>> /\ wres = <<>> /\ wg = 0
    /\ statuses = <<>> /\ handled = <<>>
    /\ results = <<>> /\ succeeded = 0 /\ failed = 0 /\ skipped = 0
    /\ skipReasons = NoSkipReasons /\ summary = NoSummary
    /\ exitCode = -1
    /\ RetryAtRest /\ ResetAtRest /\ SwitchAtRest /\ ProgAtRest
    /\ FilterAtRest /\ LogAtRest /\ StopAtRest /\ RenderAtRest

scanRest == <<nRepos, workers, gateVars, poolVars, aggVars, exitCode,
              retryVars, resetVars, switchVars, progVars, filterVars,
              logVars, stopVars, renderVars, porcelain, relRank>>

\* 472-499: the two channels, then `go` for each worker, the feeder and the
\* closer.
ScanStart ==
    /\ mpc = "preflight"
    /\ mpc' = "scanning"
    /\ scanPc' = [w \in 1..workers |-> "recv"]
    /\ scanRepo' = [w \in 1..workers |-> 0]
    /\ scanWg' = IF workers > 0 THEN workers ELSE 0
    /\ UNCHANGED <<scanCh, scanClosed, scanFed, scanRes, scanResClosed, dirty,
                   scanArrived, scanCmds, scanRest>>

\* 489-491: repoCh <- r (the channel holds len(repos)).  Nothing waits for
\* the feeder: without workers the scan can return before it has finished.
ScanFeed ==
    /\ (mpc = "scanning" \/ preflightRan) /\ scanFed < nRepos
    /\ scanCh' = Append(scanCh, scanFed + 1)
    /\ scanFed' = scanFed + 1
    /\ UNCHANGED <<mpc, scanClosed, scanPc, scanRepo, scanWg, scanRes,
                   scanResClosed, dirty, scanArrived, scanCmds, scanRest>>

\* 492: close(repoCh).
ScanFeedClose ==
    /\ (mpc = "scanning" \/ preflightRan) /\ scanFed = nRepos /\ ~scanClosed
    /\ scanClosed' = TRUE
    /\ UNCHANGED <<mpc, scanCh, scanFed, scanPc, scanRepo, scanWg, scanRes,
                   scanResClosed, dirty, scanArrived, scanCmds, scanRest>>

\* 480: `for r := range repoCh` takes the next repository.
ScanRecv(w) ==
    /\ scanPc[w] = "recv" /\ scanCh # <<>>
    /\ scanRepo' = [scanRepo EXCEPT ![w] = Head(scanCh)]
    /\ scanCh' = Tail(scanCh)
    /\ scanPc' = [scanPc EXCEPT ![w] = "query"]
    /\ UNCHANGED <<mpc, scanClosed, scanFed, scanWg, scanRes, scanResClosed,
                   dirty, scanArrived, scanCmds, scanRest>>

\* 481 and 510-515: getDirtyStatus runs `git status --porcelain` in the
\* repository; a clean answer takes the worker to the next repository.
ScanQuery(w) ==
    /\ scanPc[w] = "query"
    /\ scanCmds' = Append(scanCmds,
                          [repo |-> scanRepo[w], cmd |-> "status --porcelain"])
    /\ IF getDirtyStatus(porcelain[scanRepo[w]]) # ""
       THEN scanPc' = [scanPc EXCEPT ![w] = "send"] /\ UNCHANGED scanRepo
       ELSE /\ scanPc' = [scanPc EXCEPT ![w] = "recv"]
            /\ scanRepo' = [scanRepo EXCEPT ![w] = 0]
    /\ UNCHANGED <<mpc, scanCh, scanClosed, scanFed, scanWg, scanRes,
                   scanResClosed, dirty, scanArrived, scanRest>>

\* 482: resCh <- repoPreflightInfo{...} (the channel holds len(repos)).
ScanSend(w) ==
    /\ scanPc[w] = "send"
    /\ scanRes' = Append(scanRes,
                         [repo |-> scanRepo[w],
                          status |-> getDirtyStatus(porcelain[scanRepo[w]])])
    /\ scanRepo' = [scanRepo EXCEPT ![w] = 0]
    /\ scanPc' = [scanPc EXCEPT ![w] = "recv"]
    /\ UNCHANGED <<mpc, scanCh, scanClosed, scanFed, scanWg, scanResClosed,
                   dirty, scanArrived, scanCmds, scanRest>>

\* 480 and 479: the range ends on the closed, empty channel; wg.Done().
ScanExit(w) ==
    /\ scanPc[w] = "recv" /\ scanCh = <<>> /\ scanClosed
    /\ scanPc' = [scanPc EXCEPT ![w] = "exit"]
    /\ scanWg' = scanWg - 1
    /\ UNCHANGED <<mpc, scanCh, scanClosed, scanFed, scanRepo, scanRes,
                   scanResClosed, dirty, scanArrived, scanCmds, scanRest>>

\* 495-498: wg.Wait(); close(resCh).
ScanClose ==
    /\ mpc = "scanning" /\ scanWg = 0 /\ ~scanResClosed
    /\ scanResClosed' = TRUE
    /\ UNCHANGED <<mpc, scanCh, scanClosed, scanFed, scanPc, scanRepo, scanWg,
                   scanRes, dirty, scanArrived, scanCmds, scanRest>>

\* 501-503: `for info := range resCh` appends the next info.
ScanCollect ==
    /\ mpc = "scanning" /\ scanRes # <<>>
    /\ dirty' = Append(dirty, Head(scanRes))
    /\ scanArrived' = Append(scanArrived, Head(scanRes).repo)
    /\ scanRes' = Tail(scanRes)
    /\ UNCHANGED <<mpc, scanCh, scanClosed, scanFed, scanPc, scanRepo, scanWg,
                   scanResClosed, scanCmds, scanRest>>

\* 501-505 and 339: the range ends on the closed, empty channel; the slice is
\* sorted and returned to syncBranch.
ScanReturn ==
    /\ mpc = "scanning" /\ scanRes = <<>> /\ scanResClosed
    /\ dirty' = SortSlice(dirty)
    /\ preflightRan' = TRUE
    /\ mpc' = "prompt"
    /\ UNCHANGED <<nRepos, workers, stdinTTY, answer, prompted, logDir,
                   poolVars, aggVars, exitCode, retryVars, resetVars,
                   switchVars, progVars, filterVars, logVars, stopVars,
                   renderVars, porcelain, relRank, scanCh, scanClosed,
                   scanFed, scanPc, scanRepo, scanWg, scanRes, scanResClosed,
                   scanArrived, scanCmds>>

ScanNext ==
    \/ Discover \/ TTYCheck
    \/ ScanStart \/ ScanFeed \/ ScanFeedClose
    \/ \E w \in DOMAIN scanPc : ScanRecv(w)
    \/ \E w \in DOMAIN scanPc : ScanQuery(w)
    \/ \E w \in DOMAIN scanPc : ScanSend(w)
    \/ \E w \in DOMAIN scanPc : ScanExit(w)
    \/ ScanClose \/ ScanCollect \/ ScanReturn
    \/ Prompt \/ NewLogManager \/ StartPool

SpecScan == ScanInit /\ [][ScanNext]_vars

(***************************************************************************)
(* CLAIMS                                                                  *)
(***************************************************************************)
Issued(c) == \E i \in 1..Len(cmds) : cmds[i] = c
RunEnded == mpc \in {"returned", "exited"}
Destructive == mode = "hard" \/ mode = "rebase"
NothingStarted ==
    /\ ~preflightRan /\ ~prompted /\ ~logDir
    /\ wpc = <<>> /\ statuses = <<>> /\ feederPc = "idle" /\ closerPc = "idle"
Delivered == results \o resCh

\* C1 (Spec): no repository is received more than once, no two workers hold
\* the same repository, no repository has two results, and - for W >= 1 -
\* when the aggregation loop has ended it has received exactly N results,
\* one for each repository.
C1_EachRepoExactlyOnce ==
    /\ \A r \in DOMAIN handled : handled[r] <= 1
    /\ \A w1, w2 \in DOMAIN wrepo :
         (w1 # w2 /\ wrepo[w1] # 0) => wrepo[w1] # wrepo[w2]
    /\ \A i, j \in 1..Len(Delivered) :
         i # j => Delivered[i].repo # Delivered[j].repo
    /\ (workers >= 1 /\ mpc = "summary") =>
         /\ Len(results) = nRepos
         /\ \A r \in Repos : handled[r] = 1
         /\ \A r \in Repos : \E i \in 1..Len(results) : results[i].repo = r

\* C1 witness: a run of two repositories on two workers whose aggregation
\* loop has ended with both results, each repository handled by a worker.
C1_Witness ==
    /\ workers = 2 /\ nRepos = 2 /\ mpc = "summary"
    /\ Len(results) = 2 /\ results[1].repo = 2 /\ results[2].repo = 1

\* C2 (Spec): at every moment the repositories whose operation has started
\* and not finished (status processing), and the workers inside their
\* operation, number at most W.
C2_AtMostWInFlight ==
    /\ Cardinality({r \in DOMAIN statuses : statuses[r] = "processing"}) <= workers
    /\ Cardinality({w \in DOMAIN wpc : wpc[w] \in {"process", "finish"}}) <= workers

\* C2 witness: W = 2 and two operations in flight at once.
C2_Witness ==
    /\ workers = 2
    /\ Cardinality({r \in DOMAIN statuses : statuses[r] = "processing"}) = 2
    /\ \A w \in DOMAIN wpc : wpc[w] = "process"

\* C3 (SpecRetry), the claim as stated: an attempt that failed for another
\* reason than the timeout is the last attempt, no delay follows it, and
\* the executor returns that failure with that attempt's index.
C3_NonTimeoutFailureReturnsAtOnce ==
    \A i \in 1..Len(attempts) :
        attempts[i] = "fail" =>
            /\ i = Len(attempts)
            /\ rpc \in {"ran", "returned"}
            /\ \A j \in 1..Len(sleptAfter) : sleptAfter[j] # "fail"
            /\ rpc = "returned" => ret = [retries |-> i - 1, err |-> "fail"]

\* C4 (SpecRetry), the claim as stated: at most 3 attempts, none after a
\* success, a delay only after a timed-out attempt and never after the
\* third, and the last error returned after three timed-out attempts.
C4_BoundedAttemptsDelayOnlyAfterTimeout ==
    /\ Len(attempts) <= maxRetries
    /\ \A i \in 1..Len(attempts) : attempts[i] = "ok" => i = Len(attempts)
    /\ \A j \in 1..Len(sleptAfter) : sleptAfter[j] = "timeout"
    /\ Len(sleptAfter) <= maxRetries - 1
    /\ (rpc = "returned" /\ attempts = <<"timeout", "timeout", "timeout">>) =>
          ret = [retries |-> maxRetries - 1, err |-> "timeout"]

\* C5 (SpecReset), the claim as stated: the skip `already up to date` is
\* returned only after a fetch of the target branch has been issued in
\* this run, whichever alignment path was taken.
C5_UpToDateSkipOnlyAfterFetch ==
    (spc = "done" /\ result = SkipResult("already up to date")) => Issued("fetch")

YesInputs ==
    { <<"y", "\n">>, <<" ", "Y", "e", "S", " ", "\r", "\n">>, <<"y">>,
      <<"y", "e", "s">> }

\* C7 (Spec): in hard or rebase mode, the run gets past the prompt (log
\* directory, workers, any repository status) only if the prompt was shown
\* and the answer read is `y` or `yes`; after any other answer, an empty
\* line, the end of input or a read error the run has returned with
\* nothing dispatched.
C7_DispatchOnlyOnYes ==
    Destructive =>
        /\ (logDir \/ wpc # <<>> \/ statuses # <<>>
              \/ mpc \in {"logManager", "startPool", "aggregate", "summary"})
             => (prompted /\ preflightRan /\ answer \in YesInputs)
        /\ (prompted /\ (answer \notin YesInputs \/ ReadStringErr(answer)))
             => (mpc = "returned" /\ exitCode = 0 /\ ~logDir /\ wpc = <<>>
                 /\ statuses = <<>> /\ results = <<>>)

\* C7 witness: a rebase run in which the operator typed " YeS " and a
\* repository's operation is in progress.
C7_Witness ==
    /\ mode = "rebase"
    /\ answer = <<" ", "Y", "e", "S", " ", "\r", "\n">>
    /\ \E r \in DOMAIN statuses : statuses[r] = "processing"

AlignmentDone == Issued("rev-parse HEAD")
MidOpReasons == {"mid-merge in progress", "mid-cherry-pick in progress",
                 "mid-revert in progress"}
ReasonOf(m) ==
    CASE m = "MERGE_HEAD" -> "mid-merge in progress"
      [] m = "CHERRY_PICK_HEAD" -> "mid-cherry-pick in progress"
      [] m = "REVERT_HEAD" -> "mid-revert in progress"

FirstUnmetReason ==
    IF ~hasOrigin THEN "no origin remote"
    ELSE IF ~hasCommits THEN "no commits"
    ELSE IF curBranch = "detached" THEN "detached HEAD"
    ELSE IF remoteTip = 0 /\ lsRemote # "error" THEN "branch not on origin"
    ELSE ""
PreconditionOrder == <<"remote get-url origin", "rev-parse --verify HEAD",
                       "branch --show-current", "ls-remote">>

\* C9 (SpecReset): in every mode the precondition queries are issued in the
\* order origin, commits, HEAD, remote branch, and a finished run of a
\* repository with an unmet precondition is the skip of the first unmet
\* one, with no query made after it.
C9_FirstUnmetPreconditionSkips ==
    /\ \A i \in 1..Len(cmds) : i <= 4 => cmds[i] = PreconditionOrder[i]
    /\ (spc = "done" /\ FirstUnmetReason # "") =>
         /\ result = SkipResult(FirstUnmetReason)
         /\ \E k \in 1..4 : /\ Len(cmds) = k
                            /\ k < 4 => lsRemote = "none"

\* C9 witness: a rebase-mode run on a repository with neither an origin
\* remote nor a commit ended as the skip `no origin remote`.
C9_Witness ==
    /\ mode = "rebase" /\ spc = "done" /\ ~hasOrigin /\ ~hasCommits
    /\ result = SkipResult("no origin remote")

\* C10 (SpecReset): once the rebase has stopped on a conflict the machine
\* is at the abort or past it; it returns only after `git rebase --abort`
\* was issued, as the failure `conflict during rebase, aborted` with no
\* rebase left in progress when the abort succeeded, and as the failure
\* `conflict during rebase; abort failed - manual cleanup required` when
\* it did not.
C10_ConflictAbortsAndFails ==
    rebaseOut = "conflict" =>
        /\ spc \in {"abort", "done"}
        /\ spc = "done" =>
             /\ Issued("rebase --abort")
             /\ abortOut \in {"ok", "fail"}
             /\ ~result.Success /\ ~result.Skipped
             /\ abortOut = "ok" =>
                  /\ result = FailResult("conflict during rebase, aborted")
                  /\ ~rebaseDir
             /\ abortOut = "fail" =>
                  result = FailResult(
                    "conflict during rebase; abort failed - manual cleanup required")

\* C10 witness: a conflicting rebase was aborted and reported.
C10_Witness ==
    /\ spc = "done" /\ rebaseOut = "conflict" /\ abortOut = "ok"
    /\ ~rebaseDir /\ result = FailResult("conflict during rebase, aborted")

\* The run has come to the mode's own step (doHardReset, doSoftReset,
\* doRebase): the preconditions and the alignment are behind it and the
\* repository was not found at origin/<branch>.
ReachedModeStep ==
    \/ spc \in {"midOp", "hardReset", "stagedCheck", "softReset", "rebaseCheck",
                "dirtyCheck", "rebase", "abort"}
    \/ spc = "done" /\ AlignmentDone /\ result # SkipResult("already up to date")

NetworkErrors ==
    {"network error: ls-remote failed with exit code 128",
     "network error: ls-remote failed with exit code -1",
     "network error: exec: not started"}

\* C12 (SpecReset): when the remote query of precondition 4 ends in any
\* other way than "found" (exit 0) or "absent" (exit 2), the run ends there
\* as a failure whose error begins with `network error`, never as a skip;
\* the skip `branch not on origin` is returned exactly on the "absent"
\* answer.
C12_QueryErrorIsNetworkFailure ==
    /\ lsExit \notin {"none", "exit 0", "exit 2"} =>
         /\ spc = "done" /\ Len(cmds) = 4
         /\ ~result.Skipped /\ ~result.Success /\ result.SkipReason = ""
         /\ result.Error \in NetworkErrors
    /\ (spc = "done" /\ result = SkipResult("branch not on origin")) =>
         (lsExit = "exit 2" /\ remoteTip = 0)
    /\ lsExit = "exit 2" =>
         (spc = "done" /\ result = SkipResult("branch not on origin"))

\* C12 witness: the remote could not be read (exit 128) although the branch
\* exists there, and the run failed with a network error.
C12_Witness ==
    /\ spc = "done" /\ lsExit = "exit 128" /\ remoteTip # 0
    /\ result = FailResult("network error: ls-remote failed with exit code 128")


IsFailure(res) == ~res.Skipped /\ ~res.Success
Dispatched == statuses # <<>>

\* C13 (Spec): a run that has dispatched operations ends with exit code 1
\* if and only if at least one of the results it received is a failure; if
\* every result is a success or a skip it returns normally, with code 0.
C13_ExitOneIffSomeFailure ==
    (RunEnded /\ Dispatched) =>
        /\ exitCode \in {0, 1}
        /\ exitCode = 1 <=> (\E i \in 1..Len(results) : IsFailure(results[i].res))
        /\ (\A i \in 1..Len(results) :
              results[i].res.Success \/ results[i].res.Skipped) => exitCode = 0
        /\ exitCode = 1 <=> mpc = "exited"

\* C13 witness: a run over two repositories, one skipped and one failed,
\* has exited with code 1.
C13_Witness ==
    /\ RunEnded /\ Dispatched /\ exitCode = 1 /\ Len(results) = 2
    /\ results[1].res.Skipped /\ IsFailure(results[2].res)


\* Where a repository is: not yet sent by the feeder, in the queue, in a
\* worker's hands, or with its result delivered.
PlacesOf(r) ==
    (IF r > fed THEN 1 ELSE 0)
    + Cardinality({i \in 1..Len(repoCh) : repoCh[i] = r})
    + Cardinality({w \in DOMAIN wrepo : wrepo[w] = r})
    + Cardinality({i \in 1..Len(Delivered) : Delivered[i].repo = r})

\* C14 (Spec): whatever results the operations have, failures included, no
\* repository is ever dropped (each is in exactly one place: to be sent,
\* queued, held by a worker or delivered), a worker stops only when the
\* queue is closed and empty, each delivered repository's status is the one
\* of its own result, and - for W >= 1 - when the aggregation loop has ended
\* every repository has its result and a terminal status.
C14_FailureIsolated ==
    Dispatched =>
        /\ \A r \in Repos : PlacesOf(r) = 1
        /\ \A w \in DOMAIN wpc :
             wpc[w] = "exited" => (repoClosed /\ repoCh = <<>> /\ fed = nRepos)
        /\ \A i \in 1..Len(Delivered) :
             statuses[Delivered[i].repo] = TerminalStatus(Delivered[i].res)
        /\ (workers >= 1 /\ mpc \in {"summary", "returned", "exited"}) =>
             \A r \in Repos :
                /\ \E i \in 1..Len(results) : results[i].repo = r
                /\ statuses[r] \in {"completed", "failed"}

\* C14 witness: the only worker's first operation failed, and it went on to
\* the second repository, whose operation succeeded; both results arrived.
C14_Witness ==
    /\ workers = 1 /\ nRepos = 2 /\ mpc = "summary"
    /\ results = << [repo |-> 1, res |-> FailResult("fetch failed")],
                    [repo |-> 2, res |-> OkResult("")] >>


ClassSkipped(res) ==
    res.Skipped /\ ~res.Success /\ res.SkipReason # "" /\ res.Error = ""
ClassSuccess(res) == res.Success /\ ~res.Skipped /\ res.Error = ""
ClassFailure(res) == ~res.Success /\ ~res.Skipped /\ res.Error # ""
ClassesOf(res) ==
    (IF ClassSkipped(res) THEN 1 ELSE 0) + (IF ClassSuccess(res) THEN 1 ELSE 0)
    + (IF ClassFailure(res) THEN 1 ELSE 0)

\* C15 (SpecReset): the ResetResult returned on any path of
\* processSingleReset is in exactly one of the classes skipped (Skipped,
\* not Success, a SkipReason, no Error), success (Success, not Skipped, no
\* Error) and failure (neither, an Error); Skipped and Success are never
\* both true, and only a success carries a warning.
C15_ResultInOneClass ==
    spc = "done" =>
        /\ ClassesOf(result) = 1
        /\ ~(result.Skipped /\ result.Success)
        /\ result.Warning # "" => ClassSuccess(result)
        /\ result.SkipReason # "" => ClassSkipped(result)

\* C15 witness: a soft reset that succeeded with a warning is a success.
C15_Witness ==
    /\ spc = "done" /\ mode = "soft"
    /\ result = OkResult("had staged changes before reset")
    /\ ClassSuccess(result) /\ ~ClassSkipped(result) /\ ~ClassFailure(result)


StatusPaths == {<<>>, <<"processing">>, <<"processing", "completed">>,
                <<"processing", "failed">>}

\* C16 (SpecProgress): in every interleaving of the workers, the spinner
\* task and the input listener, what UpdateStatus has written for a
\* repository is a prefix of processing, then completed or failed -
\* processing is written at most once, a terminal state only after it, and
\* nothing after a terminal state - and the repository's status is waiting
\* until the first write and the last state written from then on.
C16_StatusMovesForwardOnly ==
    \A r \in DOMAIN statuses :
        /\ trail[r] \in StatusPaths
        /\ statuses[r] = IF trail[r] = <<>> THEN "waiting"
                         ELSE trail[r][Len(trail[r])]

\* C16 witness: with the spinner advanced and the second page shown, one
\* repository has failed after processing and the other is processing.
C16_Witness ==
    /\ nRepos = 2 /\ spinnerIndex > 0 /\ currentPage = 1
    /\ trail[1] = <<"processing", "failed">> /\ statuses[1] = "failed"
    /\ trail[2] = <<"processing">> /\ statuses[2] = "processing"


IsPrefix(a, b) == Len(a) <= Len(b) /\ \A i \in 1..Len(a) : a[i] = b[i]

C18_ShellTimeoutIsRetried ==
    (rOp = "shell" /\ rpc = "returned") =>
        /\ Len(attempts) <= maxRetries
        /\ \A i \in 1..Len(attempts) :
             (attempts[i] = "timeout" /\ i < maxRetries) => Len(attempts) > i


SwitchStepsLocal  == <<"show-ref", "switch", "switch -c --track">>
SwitchStepsRemote == <<"show-ref", "ls-remote",
                       "rev-parse --is-shallow-repository", "fetch", "switch",
                       "switch -c --track">>

\* C19 (SpecSwitch): the commands of processSingleRepo are issued in the
\* fixed order local check, remote query, fetch, switch, tracking branch;
\* with a local branch neither the remote query nor the fetch is made; an
\* absent remote branch ends the run as the failure `branch not found` and
\* a failed fetch as `fetch failed`, in both cases with no switch
\* attempted; the tracking branch is attempted only after the plain switch
\* has failed; and the result is a success exactly when one of the two
\* switch attempts succeeded, `switch failed` when both failed.
C19_SwitchStepsInOrder ==
    /\ IsPrefix(cmds, SwitchStepsLocal) \/ IsPrefix(cmds, SwitchStepsRemote)
    /\ swOut.local = "exists" => (~Issued("ls-remote") /\ ~Issued("fetch"))
    /\ (Issued("ls-remote") \/ Issued("fetch")) => swOut.local = "absent"
    /\ (swOut.local = "absent" /\ lsExit = "exit 2") =>
         /\ swpc = "done" /\ swResult = SwitchFail("branch not found")
         /\ ~Issued("fetch") /\ ~Issued("switch") /\ ~Issued("switch -c --track")
    /\ Issued("fetch") => lsExit = "exit 0"
    /\ swOut.fetch = "fail" =>
         /\ swpc = "done" /\ swResult = SwitchFail("fetch failed")
         /\ ~Issued("switch") /\ ~Issued("switch -c --track")
    /\ Issued("switch -c --track") => swOut.switch = "fail"
    /\ swpc = "done" =>
         /\ swResult.Success <=> (swOut.switch = "ok" \/ swOut.track = "ok")
         /\ swResult.Success => swResult.Error = ""
         /\ (swOut.switch = "fail" /\ swOut.track = "fail") =>
              swResult = SwitchFail("switch failed")

\* C19 witness: no local branch, the branch found on origin and fetched,
\* the plain switch failed and the tracking branch was created.
C19_Witness ==
    /\ swpc = "done" /\ cmds = SwitchStepsRemote
    /\ swOut = [local |-> "absent", fetch |-> "ok", switch |-> "fail",
                track |-> "ok"]
    /\ swResult = SwitchOk /\ curBranch = "target" /\ localTip = originRef


StagedWarning == "had staged changes before reset"

CountOf(P(_)) == Cardinality({i \in DOMAIN results : P(results[i].res)})
IsSuccess(res) == ~res.Skipped /\ res.Success
IsSkip(res) == res.Skipped
Summarised == summary # NoSummary

\* C21 (SpecSummary): the summary's succeeded, failed and skipped numbers
\* are the numbers of results of each outcome class and add up to the
\* number of repositories; the skipped line lists every reason that
\* occurred, once, with the number of results that carry it, in strictly
\* ascending string order - whatever the order in which the results
\* arrived.  A success and an `already up to date` skip print 1 succeeded
\* and 1 skipped.
C21_SummaryCountsAndSortedReasons ==
    Summarised =>
        /\ summary.repos = nRepos /\ Len(results) = nRepos
        /\ summary.succeeded = CountOf(IsSuccess)
        /\ summary.failed = CountOf(IsFailure)
        /\ summary.skipped = CountOf(IsSkip)
        /\ summary.succeeded + summary.failed + summary.skipped = nRepos
        /\ \A i \in DOMAIN summary.reasons :
             LET reason == summary.reasons[i][1] IN
               /\ summary.reasons[i][2] > 0
               /\ summary.reasons[i][2] = Cardinality({k \in DOMAIN results :
                      results[k].res.Skipped /\ results[k].res.SkipReason = reason})
               /\ i > 1 => StrLess(summary.reasons[i - 1][1], reason)
        /\ \A k \in DOMAIN results :
             results[k].res.Skipped =>
                \E i \in DOMAIN summary.reasons :
                    summary.reasons[i][1] = results[k].res.SkipReason
        /\ ({results[k].res : k \in DOMAIN results}
               = {OkResult(""), SkipResult("already up to date")} /\ nRepos = 2)
             => (summary.succeeded = 1 /\ summary.skipped = 1 /\ summary.failed = 0)

\* C21 witness: two skips arrived with the later-sorting reason first, and
\* the summary lists them in string order.
C21_Witness ==
    /\ Summarised /\ Len(results) = 2
    /\ results[1].res = SkipResult("no origin remote")
    /\ results[2].res = SkipResult("already up to date")
    /\ summary.reasons = << <<"already up to date", 1>>, <<"no origin remote", 1>> >>


BothSwitchesFailed ==
    swpc = "done" /\ swOut.switch = "fail" /\ swOut.track = "fail"

\* C22 (SpecSwitch): when `git switch` and `git switch -c --track` both
\* fail, the result is the failure `switch failed` and the output of both
\* commands comes with it: in the error text, or at least in the
\* repository's log file.
C22_SwitchFailedCarriesBothOutputs ==
    BothSwitchesFailed =>
        /\ ~swResult.Success
        /\ \/ swResult.Error = "switch failed: " \o OutputOf("switch")
                                   \o OutputOf("switch -c --track")
           \/ /\ swResult.Error = "switch failed"
              /\ \E i, j \in DOMAIN swLog :
                    /\ i < j /\ swLog[i] = OutputOf("switch")
                    /\ swLog[j] = OutputOf("switch -c --track")


\* The elements of a cleaned path (the cleaned path "." has the one element
\* "."), and "dir is path or an ancestor of it, element by element".
ElemsOf(path) == SplitPath(Clean(path))
AtOrUnder(path, dir) == IsPrefix(ElemsOf(dir), ElemsOf(path))
Asked == cfgPc = "ready" /\ relPath # <<>>

\* C23 (SpecFilter): after newConfig no name given in both lists is in the
\* skip set (the skip set is the skip list without the included names), and
\* with a non-empty include set a repository is selected exactly if its
\* relative path is an included directory or lies under one, whole path
\* elements compared, whatever the skip set holds.
C23_IncludeWinsOverSkip ==
    cfgPc = "ready" =>
        /\ skipSet \cap includeDirs = {}
        /\ skipSet = skipDirs \ includeDirs
        /\ includeSet = includeDirs
        /\ (Asked /\ includeSet # {}) =>
              (selected <=> \E dir \in includeDirs : AtOrUnder(relPath, dir))

\* C23 witness: "a" is in both lists and a/b, asked about, is selected.
C23_Witness ==
    /\ Asked /\ <<"a">> \in includeDirs /\ <<"a">> \in skipDirs
    /\ relPath = <<"a", "/", "b">> /\ selected


\* The monitor's mutable state, as far as the model holds it.
monitorState == <<statuses, currentPage, paginationMode, spinnerIndex>>

\* C24 (SpecStart): every step that changes the monitor's mutable state
\* (statuses, current page, pagination flag, spinner index) is the locked
\* section of the task that holds the monitor's lock: the lock is held
\* before the step and released by it.
C24_StateChangesOnlyUnderLock ==
    [][monitorState' # monitorState => (mu # Free /\ mu' = Free)]_vars


\* C25 (SpecSwitchLive): a dispatched switch operation runs to completion,
\* also when an external process it started never exits on its own.
C25_OperationRunsToCompletion == <>(swpc = "done")


Received == Cardinality({r \in DOMAIN handled : handled[r] > 0})

QueueDiscipline ==
    /\ resClosed =>
          /\ \A w \in DOMAIN wpc : wpc[w] = "exited"
          /\ wg = 0
          /\ Len(results) + Len(resCh) = Received
    /\ \A w \in DOMAIN wpc : wpc[w] = "send" => (~resClosed /\ Len(resCh) < nRepos)
    /\ (feederPc = "send" /\ fed < nRepos) => (~repoClosed /\ Len(repoCh) < nRepos)
    /\ mpc \in {"summary", "returned", "exited"} => (resClosed /\ resCh = <<>>)

\* C26 (SpecPoolLive): the result queue is closed only when every worker has
\* left its loop, each result it took on having been pushed; a worker about
\* to push finds the queue open and not full, and the feeder finds the
\* repository queue open and not full; the aggregation loop ends only on
\* the closed, drained queue, and it always ends.
C26_CloseAfterWorkersAndLoopEnds ==
    /\ []QueueDiscipline
    /\ <>(mpc \in {"returned", "exited"})

\* C26 witness: two workers served two repositories, the queue was closed
\* after them and the loop ended having received both results.
C26_Witness ==
    /\ resClosed /\ workers = 2 /\ nRepos = 2 /\ Len(results) = 2
    /\ \A w \in DOMAIN wpc : wpc[w] = "exited"
    /\ mpc = "summary"


MidOpSkipped == spc = "done" /\ result.Skipped /\ result.SkipReason \in MidOpReasons

C28_DistinctReposDistinctLogFiles ==
    /\ \A i, j \in DOMAIN created : i # j => created[i] # created[j]
    /\ \A v, w \in LogWorkers :
          (v # w /\ lfile[v] # <<>> /\ lfile[w] # <<>>) => lfile[v] # lfile[w]
    /\ \A e, f \in logFiles : e[1] # f[1] => e[2] # f[2]


\* The tasks of a run that take locks.
LockTasks ==
    {Worker(w) : w \in LogWorkers}
        \cup {<<"spinner", 0>>, <<"input", 0>>, <<"main", 0>>}

\* The step a task that holds a lock takes next.
NextStepOf(t) ==
    CASE t[1] = "worker"  -> \/ LogRenderLock(t[2]) \/ LogRenderUnlock(t[2])
                             \/ CreateLogFile(t[2])
      [] t[1] = "spinner" -> LogSpinnerRenderLock \/ LogSpinnerUnlock
      [] t[1] = "input"   -> LogInputRenderLock \/ LogInputUnlock
      [] OTHER            -> ReadLogUnlock

\* C29 (SpecLog): no task holds lm.mu together with ps.mu or ps.writeMu;
\* ps.writeMu is only ever held by the holder of ps.mu (the order is ps.mu,
\* then ps.writeMu); whoever holds a lock can take its next step, so no set
\* of tasks waits in a cycle; and a worker that wants lm.mu while another
\* task holds the monitor's locks either gets it or waits for a holder of
\* lm.mu that can go on.
C29_LocksIndependentAndOrdered ==
    /\ \A t \in LockTasks : lmMu = t => (mu # t /\ writeMu # t)
    /\ writeMu # Free => mu = writeMu
    /\ \A t \in LockTasks :
          (lmMu = t \/ mu = t \/ writeMu = t) => ENABLED NextStepOf(t)
    /\ \A w \in LogWorkers :
          (lpc[w] = "createLog" /\ mu # Free)
              => \/ ENABLED CreateLogLock(w)
                 \/ (lmMu # Free /\ ENABLED NextStepOf(lmMu))

\* One worker is inside CreateLogFile while the spinner is inside a frame and
\* another worker waits for ps.mu.
C29_Witness ==
    \E v, w \in LogWorkers :
        /\ v # w
        /\ lpc[v] = "logLocked" /\ lmMu = Worker(v)
        /\ lpc[w] = "update"
        /\ spinnerPc = "writing" /\ writeMu = <<"spinner", 0>>


RunComplete == TerminalCount = nRepos

SpinnerEnded == spinnerPc \in {"off", "stopped", "gone"}

C31_TickOnlyWhileIncomplete ==
    [][/\ (spinnerIndex' # spinnerIndex \/ wrote' = "spinner")
            => TerminalCount < nRepos
       /\ spinnerIndex' \in 0..(NumSpinnerFrames - 1)
       /\ (frame'.kind = "ansi" /\ frame'.head # -1)
            => frame'.head \in 0..(NumSpinnerFrames - 1)]_vars

\* The run is complete and the last step, a tick of the spinner, wrote
\* nothing (no listener runs, and the workers have nothing left to update).
C31_Witness ==
    /\ TerminalCount = nRepos
    /\ spinnerPc = "tick" /\ inputPc = "off"
    /\ wrote = "none"
    /\ frame.kind = "ansi" /\ frame.head = -1


\* The rows a paginated frame has to show: the statuses with the indices
\* page * pageSize up to, excluding, min((page + 1) * pageSize, N).
PageRows(f) ==
    LET lo == f.page * maxDisplayedRepos
        hi == min((f.page + 1) * maxDisplayedRepos, nRepos)
    IN /\ f.from = lo /\ f.to = hi
       /\ DOMAIN f.shown = 1..(hi - lo)
       /\ \A i \in DOMAIN f.shown : f.shown[i] = statuses[lo + i]

\* The page count, where the code can compute one.
PageInBounds ==
    /\ ~totalPagesPanics
    /\ currentPage \in 0..(totalPages - 1)

CountIsLinesWritten ==
    frame.kind = "ansi" =>
        /\ linesDrawn = frame.lines
        /\ frame.count = frame.lines
        /\ frame.up = prevLines

ScanOver ==
    /\ scanResClosed /\ scanWg = 0 /\ scanRes = <<>>
    /\ \A w \in DOMAIN scanPc : scanPc[w] = "exit"
    /\ workers >= 1 => (scanClosed /\ scanCh = <<>>)

\* The repositories getDirtyStatus classifies as dirty.
DirtyRepos == {r \in Repos : getDirtyStatus(porcelain[r]) # ""}

ExaminedTimes(r) ==
    Cardinality({i \in DOMAIN scanCmds : scanCmds[i].repo = r})

ConflictErrors ==
    { "conflict during rebase, aborted",
      "conflict during rebase; abort failed - manual cleanup required" }

\* C35 (SpecReset): a result that reports a conflict during the rebase is
\* given only when `git rebase` stopped on a conflict.
C35_ConflictOnlyOnRealConflict ==
    (spc = "done" /\ result.Error \in ConflictErrors) => rebaseOut = "conflict"


\* What the last frame says of the run: done.
FrameShowsDone ==
    \/ frame.kind = "ansi" /\ frame.head = -1
    \/ frame.kind = "simple" /\ frame.done = nRepos

\* C36 (SpecRenderRun): a repository whose result has been sent is in a
\* terminal status; when the aggregation loop has ended no repository is
\* waiting or processing, and the last frame written shows the run as done.
C36_TerminalStatusBeforeResult ==
    /\ \A r \in SentRepos : statuses[r] \in {"completed", "failed"}
    /\ mpc = "summary" =>
          /\ \A r \in Repos : statuses[r] \in {"completed", "failed"}
          /\ FrameShowsDone

\* The loop has ended with both results received, the last frame written
\* being the second page of the finished list.
C36_Witness ==
    /\ mpc = "summary" /\ nRepos = 2
    /\ Len(results) = 2
    /\ wrote = "none" /\ frame.kind = "ansi" /\ frame.head = -1
    /\ frame.page = 1


\* The commands of processSingleReset that change the repository: its
\* refs, its branch, its index or its working tree.
ChangingCommands ==
    {"fetch", "switch", "switch -c --track", "reset --hard", "reset --soft",
     "rebase", "rebase --abort"}

\* The skips of the four preconditions (part_014:555-578).
PreconditionSkips ==
    {"no origin remote", "no commits", "detached HEAD", "branch not on origin"}

\* The run of the repository ended at a precondition: one of the four
\* skips, or the failure `network error`.
EndedAtPrecondition ==
    /\ spc = "done"
    /\ \/ result.Skipped /\ result.SkipReason \in PreconditionSkips
       \/ ~result.Skipped /\ ~result.Success /\ result.Error \in NetworkErrors

\* C37 (SpecReset): when the run of a repository has ended with a
\* precondition skip or with the failure `network error`, every command
\* issued for it is one of the four queries, in their order; no fetch,
\* switch, reset or rebase has been issued.
C37_PreconditionEndsChangeNothing ==
    EndedAtPrecondition =>
        /\ \A i \in 1..Len(cmds) : cmds[i] \notin ChangingCommands
        /\ Len(cmds) <= 4
        /\ \A i \in 1..Len(cmds) : cmds[i] = PreconditionOrder[i]

\* C37 witness: a hard-mode run on a repository with files of an
\* interrupted operation, on another branch, ended as `network error`
\* after the four queries.
C37_Witness ==
    /\ mode = "hard" /\ EndedAtPrecondition
    /\ result.Error = "network error: ls-remote failed with exit code 128"
    /\ curBranch = "other" /\ markers # {}
    /\ Len(cmds) = 4


\* The summary has begun: it is being printed, or it and the view-logs
\* prompt are over.
SummaryBegun == mpc \in {"summary", "exitCheck"}

\* C38 (SpecStop): in each of the four operations, when the summary begins
\* the spinner has been told to stop (ps.stopSpinner is closed, on an ANSI
\* terminal) and the keyboard listener is off.
C38_StoppedBeforeSummary ==
    (opType \in OpTypes /\ SummaryBegun) =>
        /\ supportsANSI => stopSpinner
        /\ inputPc = "off"


\* What a run without workers leaves behind: no goroutine of the pool, no
\* result, every repository `waiting`, nothing counted.
NothingProcessed ==
    /\ wpc = <<>> /\ wg = 0
    /\ resCh = <<>> /\ results = <<>>
    /\ \A r \in DOMAIN statuses : statuses[r] = "waiting"
    /\ succeeded = 0 /\ failed = 0 /\ skipped = 0

\* The run has returned with the summary of no result and the exit code 0.
ReturnedEmpty ==
    /\ mpc = "returned" /\ exitCode = 0
    /\ NothingProcessed
    /\ DOMAIN statuses = Repos
    /\ summary.repos = nRepos
    /\ summary.succeeded = 0 /\ summary.failed = 0 /\ summary.skipped = 0

\* C39 (SpecPoolLive): with a worker count of 0 or less no worker is ever
\* started and nothing is processed, and the run comes to its end: it
\* returns with zero results, every repository `waiting`, a summary of
\* 0 succeeded and 0 failed, and the exit code 0.
C39_NoWorkersRunStillEnds ==
    /\ [](workers <= 0 => NothingProcessed)
    /\ (workers <= 0) ~> ReturnedEmpty

\* C39 witness: a run with a negative worker count has returned with the
\* empty summary of two repositories while the feeder had queued only one
\* of them.
C39_Witness ==
    /\ workers < 0 /\ nRepos = 2
    /\ ReturnedEmpty
    /\ fed = 1 /\ Len(repoCh) = 1


\* What a frame of the rich renderer has to be: a page count of at least 1
\* where one is printed, rows within the list, a count of at least 2.
FrameWellFormed ==
    frame.kind = "ansi" =>
        /\ frame.extra = "page" => frame.pages >= 1
        /\ 0 <= frame.from /\ frame.from <= frame.to /\ frame.to <= nRepos
        /\ frame.count >= 2

\* C40 (SpecRender): for every page size the flag can give and every N >= 1
\* no frame ends in a runtime error, and every frame of the rich renderer
\* prints a page count of at least 1, shows rows within 0 .. N and stores a
\* lines-drawn count of at least 2.
C40_RenderCompletesForEveryPageSize ==
    mpc # "render" => (~rpanic /\ FrameWellFormed)

=============================================================================
